---------------------------- MODULE Spec2Model ----------------------------
(***************************************************************************)
(* A model of the emotion analyzer: the sentiment scorer, the context      *)
(* classifier, the emotion composer, the adaptive learner                  *)
(* (modules/context_learning.py) and the orchestrator                      *)
(* (modules/integration.py).                                               *)
(*                                                                         *)
(* Conventions.  A Python str is a sequence of one-character strings, so   *)
(* that lower(), split() and the `in` substring test act on characters.    *)
(* A Python float is an exact rational <<n, d>> in lowest terms with       *)
(* d > 0.  A Python dict is a sequence of [k, v] items in insertion order. *)
(* A raised exception is the name of its class; "none" is a normal return. *)
(***************************************************************************)
EXTENDS Integers, Sequences, FiniteSets, TLC

VARIABLES
    file,           \* the persisted store (emotion_history.json)
    disk_writable,  \* whether open(history_path, 'w') succeeds
    learner,        \* the ContextLearner instances opened on the store
    clock,          \* datetime.now(), one tick per call
    nlp,            \* the name of the spaCy model loaded at import, or "None"
    call            \* the last call made by the front end, and its outcome

vars == <<file, disk_writable, learner, clock, nlp, call>>

----------------------------------------------------------------------------
(* Exact arithmetic on floats *)

RECURSIVE Gcd(_, _)
Gcd(a, b) == IF b = 0 THEN a ELSE Gcd(b, a % b)

Abs(a) == IF a < 0 THEN -a ELSE a

Rat(n, d) ==
    LET g == Gcd(Abs(n), Abs(d))
        s == IF d < 0 THEN -1 ELSE 1
    IN  <<(s * n) \div g, (s * d) \div g>>

Zero == <<0, 1>>
One == <<1, 1>>

RatAdd(a, b) ==
    IF a = Zero THEN b
    ELSE IF b = Zero THEN a
    ELSE LET g == Gcd(a[2], b[2])
         IN  Rat(a[1] * (b[2] \div g) + b[1] * (a[2] \div g), (a[2] \div g) * b[2])
RatSub(a, b) == RatAdd(a, <<-b[1], b[2]>>)
RatMul(a, b) ==
    IF a = Zero \/ b = Zero THEN Zero
    ELSE LET g1 == Gcd(Abs(a[1]), b[2])
             g2 == Gcd(Abs(b[1]), a[2])
         IN  Rat((a[1] \div g1) * (b[1] \div g2), (a[2] \div g2) * (b[2] \div g1))
RatDiv(a, b) == RatMul(a, Rat(b[2], b[1]))
\* a / b < c / d for a, c >= 0 and b, d > 0, by the integer parts and then the
\* fractional parts (no product is formed, so nothing overflows)
RECURSIVE LessFraction(_, _, _, _)
LessFraction(a, b, c, d) ==
    IF a \div b # c \div d THEN a \div b < c \div d
    ELSE IF c % d = 0 THEN FALSE
    ELSE IF a % b = 0 THEN TRUE
    ELSE LessFraction(d, c % d, b, a % b)

RatLess(a, b) ==
    IF a[1] < 0
    THEN b[1] >= 0 \/ LessFraction(-b[1], b[2], -a[1], a[2])
    ELSE b[1] > 0 /\ LessFraction(a[1], a[2], b[1], b[2])
RatLeq(a, b) == ~RatLess(b, a)
RatMin(a, b) == IF RatLess(b, a) THEN b ELSE a
RatMax(a, b) == IF RatLess(a, b) THEN b ELSE a

----------------------------------------------------------------------------
(* Python str: lower(), split(), `in` *)

UpperCase == <<"A","B","C","D","E","F","G","H","I","J","K","L","M",
               "N","O","P","Q","R","S","T","U","V","W","X","Y","Z">>
LowerCase == <<"a","b","c","d","e","f","g","h","i","j","k","l","m",
               "n","o","p","q","r","s","t","u","v","w","x","y","z">>

\* The sequence f, evaluated once
Tuple(f) == <<>> \o f

\* The function f, evaluated once
Fn(f) == f @@ <<>>

\* The characters of a string literal
chars(s) == Tuple([i \in 1..Len(s) |-> SubSeq(s, i, i)])

lower_char(c) ==
    IF \E i \in 1..26 : UpperCase[i] = c
    THEN LowerCase[CHOOSE i \in 1..26 : UpperCase[i] = c]
    ELSE c

lower(s) == Tuple([i \in 1..Len(s) |-> lower_char(s[i])])

is_space(c) == c \in {" ", "\t", "\n"}

RECURSIVE split_from(_, _, _, _)
split_from(s, i, cur, acc) ==
    IF i > Len(s)
    THEN IF cur = <<>> THEN acc ELSE Append(acc, cur)
    ELSE IF is_space(s[i])
         THEN split_from(s, i + 1, <<>>, IF cur = <<>> THEN acc ELSE Append(acc, cur))
         ELSE split_from(s, i + 1, Append(cur, s[i]), acc)

split(s) == split_from(s, 1, <<>>, <<>>)

\* pattern in text
contains(text, pattern) ==
    \E i \in 0..(Len(text) - Len(pattern)) :
        \A j \in 1..Len(pattern) : text[i + j] = pattern[j]

\* f"{a} {b}"
join2(a, b) == a \o <<" ">> \o b

Range(s) == {s[i] : i \in 1..Len(s)}

----------------------------------------------------------------------------
(* Python dict, in insertion order *)

dict_keys(d) == {d[i].k : i \in 1..Len(d)}
dict_has(d, key) == \E i \in 1..Len(d) : d[i].k = key
dict_get(d, key, default) ==
    IF dict_has(d, key) THEN d[CHOOSE i \in 1..Len(d) : d[i].k = key].v ELSE default
\* d[key] = value
dict_set(d, key, value) ==
    IF dict_has(d, key)
    THEN Tuple([i \in 1..Len(d) |-> IF d[i].k = key THEN [k |-> key, v |-> value] ELSE d[i]])
    ELSE Append(d, [k |-> key, v |-> value])

\* sum(d.values()) over the items lo..hi; exact addition is associative, and the
\* halves keep the evaluation shallow
RECURSIVE dict_sum_range(_, _, _)
dict_sum_range(d, lo, hi) ==
    IF lo > hi THEN Zero
    ELSE IF lo = hi THEN d[lo].v
    ELSE LET mid == (lo + hi) \div 2
         IN  RatAdd(dict_sum_range(d, lo, mid), dict_sum_range(d, mid + 1, hi))
\* sum(d.values())
dict_sum(d) == dict_sum_range(d, 1, Len(d))

\* {k: v / total for k, v in d.items()}
dict_scale(d, total) ==
    Tuple([i \in 1..Len(d) |-> [k |-> d[i].k, v |-> RatDiv(d[i].v, total)]])

\* {k: v for k, v in d.items() if v >= threshold}
dict_filter(d, threshold) ==
    SelectSeq(d, LAMBDA item : RatLeq(threshold, item.v))

\* max(d.items(), key=lambda x: x[1])[0]: the first item of maximal value
dict_argmax(d) ==
    d[CHOOSE i \in 1..Len(d) :
        /\ \A j \in 1..Len(d) : RatLeq(d[j].v, d[i].v)
        /\ \A j \in 1..(i - 1) : RatLess(d[j].v, d[i].v)].k

\* Variant of place_desc that puts an item before the earlier items of equal value.
place_desc_unstable(d, i) ==
    1 + Cardinality({j \in 1..Len(d) :
            \/ RatLess(d[i].v, d[j].v)
            \/ j > i /\ RatLeq(d[i].v, d[j].v)})

\* The place of item i in sorted(items, key=lambda x: x[1], reverse=True): after the
\* items of larger value and, the sort being stable, the earlier items of equal value
place_desc(d, i) ==
    1 + Cardinality({j \in 1..Len(d) :
            \/ RatLess(d[i].v, d[j].v)
            \/ j < i /\ RatLeq(d[i].v, d[j].v)})

\* sorted(items, key=lambda x: x[1], reverse=True)
sorted_desc(d) ==
    LET place == Tuple([i \in 1..Len(d) |-> place_desc(d, i)])
    IN  Tuple([p \in 1..Len(d) |-> d[CHOOSE i \in 1..Len(d) : place[i] = p]])

----------------------------------------------------------------------------
(* modules/context_learning.py: ContextLearner *)

HISTORY_LIMIT == 1000

\* A function (a defaultdict) with no key.
EmptyTable == [key \in {} |-> Zero]

\* d1 and d2 added key by key (the `+=` of the rebuild loop, accumulated)
merge_weights(d1, d2) ==
    Fn([e \in (DOMAIN d1) \cup (DOMAIN d2) |->
        RatAdd(IF e \in DOMAIN d1 THEN d1[e] ELSE Zero,
               IF e \in DOMAIN d2 THEN d2[e] ELSE Zero)])

merge_table(t1, t2) ==
    Fn([key \in (DOMAIN t1) \cup (DOMAIN t2) |->
        merge_weights(IF key \in DOMAIN t1 THEN t1[key] ELSE EmptyTable,
                      IF key \in DOMAIN t2 THEN t2[key] ELSE EmptyTable)])

merge_associations(a1, a2) ==
    [word    |-> merge_table(a1.word, a2.word),
     phrase  |-> merge_table(a1.phrase, a2.phrase),
     context |-> merge_table(a1.context, a2.context)]

EmptyAssociations == [word |-> EmptyTable, phrase |-> EmptyTable, context |-> EmptyTable]

\* words[i] + " " + words[i+1] for i in range(len(words) - 1)
bigrams(words) ==
    IF Len(words) < 2 THEN <<>>
    ELSE Tuple([i \in 1..(Len(words) - 1) |-> join2(words[i], words[i + 1])])

occurrences(seq, x) == Cardinality({i \in 1..Len(seq) : seq[i] = x})

\* One pass of the loop body of _rebuild_associations: what one interaction adds.
interaction_associations(interaction) ==
    LET text == lower(interaction.input_text)
        emotions == interaction.emotions
        context == interaction.context
        words == split(text)
        pairs == bigrams(words)
        dominant_emotion == dict_argmax(emotions)
    IN  IF text = <<>> \/ emotions = <<>>
        THEN EmptyAssociations
        ELSE [word |->
                [w \in Range(words) |->
                    [e \in dict_keys(emotions) |->
                        RatMul(<<occurrences(words, w), 1>>, dict_get(emotions, e, Zero))]],
              phrase |->
                [b \in Range(pairs) |->
                    [e \in dict_keys(emotions) |->
                        RatMul(<<occurrences(pairs, b), 1>>,
                               RatMul(dict_get(emotions, e, Zero), <<6, 5>>))]],
              context |->
                [c \in {context} |-> [e \in {dominant_emotion} |-> One]]]

\* The loop of _rebuild_associations over items[lo..hi], split in halves: the
\* tables only accumulate sums, so the halves add up to the sequential loop.
RECURSIVE rebuild_range(_, _, _)
rebuild_range(items, lo, hi) ==
    IF lo > hi THEN EmptyAssociations
    ELSE IF lo = hi THEN interaction_associations(items[lo])
    ELSE LET mid == (lo + hi) \div 2
         IN  merge_associations(rebuild_range(items, lo, mid),
                                rebuild_range(items, mid + 1, hi))

\* A dict with the fields of an Interaction (anything else has no .get).
is_dict(item) == "input_text" \in DOMAIN item

\* _rebuild_associations(self) on the object that interaction_history is bound to
_rebuild_associations(pytype, items) ==
    IF pytype = "NoneType"
    THEN [raised |-> "TypeError", tables |-> EmptyAssociations]
    ELSE IF \E i \in 1..Len(items) : ~is_dict(items[i])
    THEN [raised |-> "AttributeError", tables |-> EmptyAssociations]
    ELSE [raised |-> "none", tables |-> rebuild_range(items, 1, Len(items))]

PyList(items) == [pytype |-> "list", items |-> items]

\* _load_history(self): what json.load returns, or [] for a file that is missing,
\* cannot be opened or does not parse
_load_history(f) ==
    IF f.kind = "missing" THEN PyList(<<>>)
    ELSE IF f.kind \in {"unreadable", "malformed"} THEN PyList(<<>>)
    ELSE f.value

AbsentLearner ==
    [status |-> "absent", pytype |-> "list", interaction_history |-> <<>>,
     word_emotion_associations |-> EmptyTable,
     phrase_emotion_associations |-> EmptyTable,
     context_emotion_associations |-> EmptyTable]

\* ContextLearner.__init__
ContextLearner_init(f) ==
    LET loaded == _load_history(f)
        rebuilt == _rebuild_associations(loaded.pytype, loaded.items)
    IN  [raised |-> rebuilt.raised,
         learner |->
            [status |-> IF rebuilt.raised = "none" THEN "ready" ELSE "failed",
             pytype |-> loaded.pytype,
             interaction_history |-> loaded.items,
             word_emotion_associations |-> rebuilt.tables.word,
             phrase_emotion_associations |-> rebuilt.tables.phrase,
             context_emotion_associations |-> rebuilt.tables.context]]

\* The dict built at lines 104-112
new_interaction(timestamp, text, emotions, context, feedback) ==
    IF feedback # <<>>
    THEN [timestamp |-> timestamp, input_text |-> text, emotions |-> emotions,
          context |-> context, feedback |-> feedback]
    ELSE [timestamp |-> timestamp, input_text |-> text, emotions |-> emotions,
          context |-> context]

\* Variant of truncate_history that keeps the first 1000: history[:1000]
truncate_history_oldest(history) ==
    IF Len(history) > 1000 THEN SubSeq(history, 1, 1000) ELSE history

\* history[-1000:] when len(history) > 1000
truncate_history(history) ==
    IF Len(history) > HISTORY_LIMIT
    THEN SubSeq(history, Len(history) - HISTORY_LIMIT + 1, Len(history))
    ELSE history

\* Variant of add_interaction that adds the new interaction to the tables it has,
\* without a rebuild.
add_interaction_incremental(L, f, writable, timestamp, text, emotions, context, feedback) ==
    LET interaction == new_interaction(timestamp, text, emotions, context, feedback)
        history == truncate_history(Append(L.interaction_history, interaction))
        tables == merge_associations(
            [word |-> L.word_emotion_associations,
             phrase |-> L.phrase_emotion_associations,
             context |-> L.context_emotion_associations],
            interaction_associations(interaction))
        L2 == [L EXCEPT !.interaction_history = history,
                        !.word_emotion_associations = tables.word,
                        !.phrase_emotion_associations = tables.phrase,
                        !.context_emotion_associations = tables.context]
    IN  [raised |-> "none", learner |-> L2,
         file |-> [kind |-> "json", value |-> PyList(history)]]

\* Variant of add_interaction that reads the file again before it appends
add_interaction_reloading(L, f, writable, timestamp, text, emotions, context, feedback) ==
    IF L.pytype # "list"
    THEN [raised |-> "AttributeError", learner |-> L, file |-> f]
    ELSE
    LET history == truncate_history(
            Append(_load_history(f).items,
                   new_interaction(timestamp, text, emotions, context, feedback)))
        rebuilt == _rebuild_associations("list", history)
        L2 == [L EXCEPT !.interaction_history = history,
                        !.word_emotion_associations = rebuilt.tables.word,
                        !.phrase_emotion_associations = rebuilt.tables.phrase,
                        !.context_emotion_associations = rebuilt.tables.context]
    IN  IF writable
        THEN [raised |-> "none", learner |-> L2,
              file |-> [kind |-> "json", value |-> PyList(history)]]
        ELSE [raised |-> "IOError", learner |-> L2, file |-> f]

\* ContextLearner.add_interaction: the learner and the file after the call
add_interaction(L, f, writable, timestamp, text, emotions, context, feedback) ==
    IF L.pytype # "list"
    THEN [raised |-> "AttributeError", learner |-> L, file |-> f]
    ELSE
    LET history == truncate_history(
            Append(L.interaction_history,
                   new_interaction(timestamp, text, emotions, context, feedback)))
        rebuilt == _rebuild_associations("list", history)
        L2 == [L EXCEPT !.interaction_history = history,
                        !.word_emotion_associations = rebuilt.tables.word,
                        !.phrase_emotion_associations = rebuilt.tables.phrase,
                        !.context_emotion_associations = rebuilt.tables.context]
    IN  IF writable
        THEN [raised |-> "none", learner |-> L2,
              file |-> [kind |-> "json", value |-> PyList(history)]]
        ELSE [raised |-> "IOError", learner |-> L2, file |-> f]

\* sum(d.values()) of one entry of an association table
RECURSIVE weights_sum(_, _)
weights_sum(d, keys) ==
    IF keys = {} THEN Zero
    ELSE LET e == CHOOSE x \in keys : TRUE
         IN  RatAdd(d[e], weights_sum(d, keys \ {e}))

\* table[key], each weight divided by the entry's total and multiplied by factor
\* (lines 154-160, 166-172, 176-182); nothing for a key the table does not hold
\* Variant of normalized_entry without the division by total_weight
normalized_entry_raw(table, key, factor) ==
    IF key \notin DOMAIN table THEN EmptyTable
    ELSE LET total_weight == weights_sum(table[key], DOMAIN table[key])
         IN  IF RatLess(Zero, total_weight)
             THEN [e \in DOMAIN table[key] |-> RatMul(table[key][e], factor)]
             ELSE EmptyTable

\* One entry's share of the adjustment: weight / total_weight, times factor
\* (lines 156-160, 168-172, 178-182)
normalized_entry(table, key, factor) ==
    IF key \notin DOMAIN table THEN EmptyTable
    ELSE LET total_weight == weights_sum(table[key], DOMAIN table[key])
         IN  IF RatLess(Zero, total_weight)
             THEN [e \in DOMAIN table[key] |->
                      RatMul(RatDiv(table[key][e], total_weight), factor)]
             ELSE EmptyTable

RECURSIVE accumulate_entries(_, _, _, _)
accumulate_entries(table, keys, i, factor) ==
    IF i > Len(keys) THEN EmptyTable
    ELSE merge_weights(normalized_entry(table, keys[i], factor),
                       accumulate_entries(table, keys, i + 1, factor))

\* len(self.interaction_history) / 100 without the minimum
learning_factor_unbounded(n) == Rat(n, 100)

\* min(0.3, len(self.interaction_history) / 100)
learning_factor(n) == RatMin(<<3, 10>>, Rat(n, 100))

\* phrase_adjustments without the factor 1.5 of line 172
phrase_adjustments_unweighted(L, text) ==
    accumulate_entries(L.phrase_emotion_associations, bigrams(split(lower(text))), 1, One)

word_adjustments(L, text) ==
    accumulate_entries(L.word_emotion_associations, split(lower(text)), 1, One)
phrase_adjustments(L, text) ==
    accumulate_entries(L.phrase_emotion_associations, bigrams(split(lower(text))), 1, <<3, 2>>)
context_adjustments(L, context) ==
    normalized_entry(L.context_emotion_associations, context, One)

\* The emotions that the loop at line 185 adds to adjusted_emotions
new_emotions(L, text, context, emotions) ==
    ((DOMAIN word_adjustments(L, text)) \cup (DOMAIN phrase_adjustments(L, text))
        \cup (DOMAIN context_adjustments(L, context))) \ dict_keys(emotions)

fn_get(f, key) == IF key \in DOMAIN f THEN f[key] ELSE Zero

\* The orders of S by non-increasing value, one for each arrangement of equal values
RECURSIVE orders_by_value(_, _)
orders_by_value(S, value) ==
    IF S = {} THEN {<<>>}
    ELSE UNION {{<<e>> \o o : o \in orders_by_value(S \ {e}, value)} :
                    e \in {x \in S : \A y \in S : RatLeq(value[y], value[x])}}

\* The orders in which the set of line 185 may yield the emotions that emotions does
\* not hold.  A Python set of strings is iterated in an order that depends on the
\* hash seed of the process; the sort of line 213 is stable, so that two orders
\* differ in what adjust_emotions returns only where they arrange emotions of equal
\* adjustment differently: the orders by non-increasing adjustment give every result.
Orders(L, text, context, emotions) ==
    LET wa == word_adjustments(L, text)
        pa == phrase_adjustments(L, text)
        ca == context_adjustments(L, context)
    IN  orders_by_value(
            new_emotions(L, text, context, emotions),
            Fn([e \in new_emotions(L, text, context, emotions) |->
                RatAdd(RatAdd(RatMul(fn_get(wa, e), <<2, 5>>),
                              RatMul(fn_get(pa, e), <<2, 5>>)),
                       RatMul(fn_get(ca, e), <<1, 5>>))]))

\* adjusted_emotions after the loop of lines 185-201; new_order is the order in
\* which the set of line 185 yields the emotions that emotions does not hold
adjusted_values(L, text, context, emotions, new_order) ==
    LET lf == learning_factor(Len(L.interaction_history))
        wa == word_adjustments(L, text)
        pa == phrase_adjustments(L, text)
        ca == context_adjustments(L, context)
        keyed == emotions \o [i \in 1..Len(new_order) |-> [k |-> new_order[i], v |-> Zero]]
    IN  Tuple([i \in 1..Len(keyed) |->
            [k |-> keyed[i].k,
             v |-> RatAdd(RatMul(keyed[i].v, RatSub(One, lf)),
                          RatMul(RatAdd(RatAdd(RatMul(fn_get(wa, keyed[i].k), <<2, 5>>),
                                               RatMul(fn_get(pa, keyed[i].k), <<2, 5>>)),
                                        RatMul(fn_get(ca, keyed[i].k), <<1, 5>>)),
                                 lf))]])

\* total = sum(d.values()); if total > 0: d = {k: v / total ...}
normalize(d) ==
    LET total == dict_sum(d)
    IN  IF RatLess(Zero, total) THEN dict_scale(d, total) ELSE d

\* Variant of adjust_emotions without the early return of lines 141-142.
adjust_emotions_without_return(L, text, context, emotions, new_order) ==
    sorted_desc(normalize(dict_filter(
        normalize(adjusted_values(L, text, context, emotions, new_order)),
        <<1, 20>>)))

\* Variant of adjust_emotions without the filter of line 209.
adjust_emotions_unfiltered(L, text, context, emotions, new_order) ==
    IF L.interaction_history = <<>>
    THEN emotions
    ELSE sorted_desc(normalize(normalize(
            adjusted_values(L, text, context, emotions, new_order))))

\* ContextLearner.adjust_emotions: the value returned
adjust_emotions(L, text, context, emotions, new_order) ==
    IF L.interaction_history = <<>>
    THEN emotions
    ELSE sorted_desc(normalize(dict_filter(
            normalize(adjusted_values(L, text, context, emotions, new_order)),
            <<1, 20>>)))

\* In-place variant of the loop: the caller's dict holds the adjusted values.
adjust_emotions_in_place(L, text, context, emotions, new_order) ==
    IF L.interaction_history = <<>>
    THEN emotions
    ELSE adjusted_values(L, text, context, emotions, new_order)

\* ContextLearner.adjust_emotions: the caller's `emotions` dict after the call
\* (the loop writes to emotions.copy())
adjust_emotions_argument(L, text, context, emotions, new_order) == emotions

\* defaultdict.__getitem__: a missing key is inserted with an empty entry
defaultdict_getitem(table, key) ==
    IF key \in DOMAIN table THEN table
    ELSE [k \in (DOMAIN table) \cup {key} |-> IF k = key THEN EmptyTable ELSE table[k]]

\* Unguarded variant: table[key] is read for every key.
RECURSIVE lookup_entries_unguarded(_, _, _)
lookup_entries_unguarded(table, keys, i) ==
    IF i > Len(keys) THEN table
    ELSE lookup_entries_unguarded(defaultdict_getitem(table, keys[i]), keys, i + 1)

\* The table after `if key in table: entry = table[key]` for every key (lines
\* 153-155, 164-167, 176-177)
RECURSIVE lookup_entries(_, _, _)
lookup_entries(table, keys, i) ==
    IF i > Len(keys) THEN table
    ELSE lookup_entries(IF keys[i] \in DOMAIN table
                        THEN defaultdict_getitem(table, keys[i])
                        ELSE table,
                        keys, i + 1)

\* ContextLearner.adjust_emotions: the learner after the call
adjust_emotions_learner(L, text, context) ==
    IF L.interaction_history = <<>>
    THEN L
    ELSE [L EXCEPT
            !.word_emotion_associations = lookup_entries(@, split(lower(text)), 1),
            !.phrase_emotion_associations = lookup_entries(@, bigrams(split(lower(text))), 1),
            !.context_emotion_associations = lookup_entries(@, <<context>>, 1)]

\* Variant of similarity that does not lowercase the stored text.
similarity_raw_past(text, context, interaction) ==
    LET text_lower == lower(text)
        words == Range(split(text_lower))
        past_text == interaction.input_text
        past_words == Range(split(past_text))
        common_words == words \cap past_words
    IN  IF interaction.context # context THEN Zero
        ELSE IF common_words = {} THEN Zero
        ELSE IF text_lower = past_text THEN One
        ELSE Rat(Cardinality(common_words), Cardinality(words \cup past_words))

\* len(common_words) / len(words.union(past_words)), 1.0 on an exact match
\* (lines 246-258); Zero stands for "skipped"
similarity(text, context, interaction) ==
    LET text_lower == lower(text)
        words == Range(split(text_lower))
        past_text == lower(interaction.input_text)
        past_words == Range(split(past_text))
        common_words == words \cap past_words
    IN  IF interaction.context # context THEN Zero
        ELSE IF common_words = {} THEN Zero
        ELSE IF text_lower = past_text THEN One
        ELSE Rat(Cardinality(common_words), Cardinality(words \cup past_words))

\* similarity_scores: (i, similarity) for the interactions that are not skipped
similarity_scores(L, text, context) ==
    LET history == L.interaction_history
        scored == Tuple([i \in 1..Len(history) |->
                     [k |-> i, v |-> similarity(text, context, history[i])]])
    IN  SelectSeq(scored, LAMBDA item : item.v # Zero)

\* sorted(similarity_scores, key=lambda x: x[1], reverse=True)[:limit], limit >= 0
similar_indices(L, text, context, limit) ==
    LET ranked == sorted_desc(similarity_scores(L, text, context))
        n == IF limit < Len(ranked) THEN limit ELSE Len(ranked)
    IN  IF L.interaction_history = <<>> THEN <<>>
        ELSE Tuple([j \in 1..n |-> ranked[j].k])

\* ContextLearner.get_similar_interactions
get_similar_interactions(L, text, context, limit) ==
    LET indices == similar_indices(L, text, context, limit)
    IN  Tuple([j \in 1..Len(indices) |-> L.interaction_history[indices[j]]])

----------------------------------------------------------------------------
(* modules/emotion_mapping.py: the composer *)

BASE_EMOTIONS ==
    <<"Happy", "Sad", "Angry", "Afraid", "Surprised", "Disgusted", "Curious",
      "Excited", "Calm", "Confused", "Amused", "Proud", "Grateful", "Loving",
      "Nervous">>

\* <<emotion, patterns>>, in the order of the dict
EMOTION_PATTERNS ==
    <<<<"Happy", <<"thank you", "grateful", "appreciate", "congratulations",
                   "well done", "good job">>>>,
      <<"Sad", <<"miss you", "lost", "alone", "sorry for", "condolences", "sympathy">>>>,
      <<"Afraid", <<"help me", "save me", "danger", "scared", "afraid of",
                    "worried about">>>>,
      <<"Curious", <<"how do", "why does", "what if", "tell me about", "explain",
                     "curious about">>>>,
      <<"Confused", <<"don't understand", "confused about", "unclear", "not sure",
                      "perplexed">>>>,
      <<"Amused", <<"funny", "joke", "lol", "haha", "lmao", "hilarious">>>>,
      <<"Nervous", <<"nervous about", "anxious", "worried", "stress", "concerned">>>>>>

\* <<phrase, emotion, intensity, ctx>>; the dict literal gives "hate you" twice, and
\* the second value replaces the first
EMOTION_PHRASES ==
    <<<<"miss you", "Sad", <<7, 10>>, <<>>>>,
      <<"hate you", "Angry", <<7, 10>>, <<"friend">>>>,
      <<"love you", "Happy", <<4, 5>>, <<>>>>,
      <<"good job", "Proud", <<3, 5>>, <<>>>>,
      <<"thank you", "Grateful", <<7, 10>>, <<>>>>,
      <<"so excited", "Excited", <<4, 5>>, <<>>>>,
      <<"feel sad", "Sad", <<7, 10>>, <<>>>>,
      <<"just kidding", "Amused", <<3, 5>>, <<>>>>,
      <<"very happy", "Happy", <<4, 5>>, <<>>>>,
      <<"totally confused", "Confused", <<4, 5>>, <<>>>>>>

\* CONTEXT_WEIGHTS[context_type].items(); nothing for a type that is no key
CONTEXT_WEIGHTS(context_type) ==
    CASE context_type = "friend" ->
            <<<<"Happy", <<13, 10>>>>, <<"Excited", <<6, 5>>>>, <<"Amused", <<7, 5>>>>,
              <<"Loving", <<3, 2>>>>, <<"Afraid", <<3, 5>>>>, <<"Angry", <<7, 10>>>>>>
      [] context_type = "enemy" ->
            <<<<"Afraid", <<3, 2>>>>, <<"Angry", <<13, 10>>>>, <<"Disgusted", <<6, 5>>>>,
              <<"Happy", <<3, 5>>>>, <<"Loving", <<3, 10>>>>, <<"Calm", <<1, 2>>>>>>
      [] context_type = "neutral" ->
            <<<<"Curious", <<13, 10>>>>, <<"Confused", <<11, 10>>>>,
              <<"Nervous", <<6, 5>>>>>>
      [] OTHER -> <<>>

\* keyword_emotion_map: <<word, impacts, impacts under "friend">>
keyword_emotion_map ==
    <<<<"love", <<<<"Happy", <<3, 10>>>>, <<"Loving", <<2, 5>>>>>>>>,
      <<"like", <<<<"Happy", <<1, 5>>>>, <<"Calm", <<1, 10>>>>>>>>,
      <<"happy", <<<<"Happy", <<2, 5>>>>, <<"Excited", <<1, 5>>>>>>>>,
      <<"good", <<<<"Happy", <<1, 5>>>>, <<"Calm", <<1, 10>>>>>>>>,
      <<"great", <<<<"Happy", <<3, 10>>>>, <<"Excited", <<1, 5>>>>>>>>,
      <<"thank", <<<<"Happy", <<1, 5>>>>, <<"Grateful", <<2, 5>>>>>>>>,
      <<"appreciate", <<<<"Grateful", <<1, 2>>>>, <<"Happy", <<1, 5>>>>>>>>,
      <<"excited", <<<<"Excited", <<1, 2>>>>, <<"Happy", <<1, 5>>>>>>>>,
      <<"glad", <<<<"Happy", <<3, 10>>>>, <<"Grateful", <<1, 10>>>>>>>>,
      <<"wonderful", <<<<"Happy", <<2, 5>>>>, <<"Excited", <<1, 5>>>>>>>>,
      <<"hate", <<<<"Angry", <<3, 10>>>>, <<"Disgusted", <<3, 10>>>>>>>>,
      <<"angry", <<<<"Angry", <<1, 2>>>>, <<"Disgusted", <<1, 10>>>>>>>>,
      <<"sad", <<<<"Sad", <<1, 2>>>>, <<"Calm", <<1, 10>>>>>>>>,
      <<"upset", <<<<"Sad", <<3, 10>>>>, <<"Angry", <<1, 5>>>>>>>>,
      <<"annoyed", <<<<"Angry", <<3, 10>>>>, <<"Disgusted", <<1, 10>>>>>>>>,
      <<"worried", <<<<"Afraid", <<3, 10>>>>, <<"Nervous", <<3, 10>>>>>>>>,
      <<"kill", <<<<"Afraid", <<1, 2>>>>, <<"Angry", <<3, 10>>>>>>,
                <<<<"Surprised", <<2, 5>>>>, <<"Confused", <<1, 5>>>>, <<"Amused", <<1, 5>>>>>>>>,
      <<"hurt", <<<<"Afraid", <<2, 5>>>>, <<"Sad", <<1, 5>>>>>>,
                <<<<"Surprised", <<3, 10>>>>, <<"Confused", <<1, 5>>>>>>>>,
      <<"die", <<<<"Sad", <<2, 5>>>>, <<"Afraid", <<3, 10>>>>>>,
               <<<<"Surprised", <<3, 10>>>>, <<"Sad", <<1, 5>>>>>>>>,
      <<"attack", <<<<"Afraid", <<2, 5>>>>, <<"Angry", <<3, 10>>>>>>,
                  <<<<"Surprised", <<3, 10>>>>, <<"Confused", <<1, 5>>>>>>>>,
      <<"why", <<<<"Curious", <<2, 5>>>>, <<"Confused", <<1, 5>>>>>>>>,
      <<"how", <<<<"Curious", <<2, 5>>>>, <<"Confused", <<1, 10>>>>>>>>,
      <<"what", <<<<"Curious", <<3, 10>>>>, <<"Confused", <<1, 10>>>>>>>>,
      <<"wonder", <<<<"Curious", <<1, 2>>>>, <<"Excited", <<1, 10>>>>>>>>,
      <<"surprise", <<<<"Surprised", <<1, 2>>>>, <<"Excited", <<1, 5>>>>>>>>,
      <<"unexpected", <<<<"Surprised", <<2, 5>>>>, <<"Confused", <<1, 5>>>>>>>>,
      <<"amazing", <<<<"Surprised", <<3, 10>>>>, <<"Excited", <<3, 10>>>>,
                     <<"Happy", <<1, 5>>>>>>>>,
      <<"shocking", <<<<"Surprised", <<1, 2>>>>, <<"Confused", <<1, 5>>>>>>>>,
      <<"confused", <<<<"Confused", <<1, 2>>>>, <<"Curious", <<1, 5>>>>>>>>,
      <<"understand", <<<<"Confused", <<1, 5>>>>, <<"Curious", <<1, 5>>>>>>>>>>

\* d.get(key, default) on a dict with fixed string keys (a record)
py_get(d, key, default) == IF key \in DOMAIN d THEN d[key] ELSE default

\* value += amount * factor for every amount of amounts, in turn
RECURSIVE add_amounts(_, _, _, _)
add_amounts(value, amounts, i, factor) ==
    IF i > Len(amounts) THEN value
    ELSE add_amounts(RatAdd(value, RatMul(amounts[i][2], factor)), amounts, i + 1, factor)

\* emotions[emotion] += amount * factor for every <<emotion, amount>> of impacts
add_impacts(emotions, impacts, factor) ==
    Fn([e \in DOMAIN emotions |->
        add_amounts(emotions[e], SelectSeq(impacts, LAMBDA impact : impact[1] = e),
                    1, factor)])

\* {emotion: 0.05 for emotion in BASE_EMOTIONS}
base_values == Fn([e \in Range(BASE_EMOTIONS) |-> <<1, 20>>])

\* The phrases of EMOTION_PHRASES that apply (lines 112-117), as impacts
phrase_impacts(text_lower, context_type) ==
    LET applies(entry) ==
            /\ contains(text_lower, chars(entry[1]))
            /\ ~(Len(entry[4]) > 0 /\ entry[4][1] # context_type)
        matched == SelectSeq(EMOTION_PHRASES, applies)
    IN  Tuple([i \in 1..Len(matched) |-> <<matched[i][2], matched[i][3]>>])

\* 0.4 for every pattern of EMOTION_PATTERNS in the text (lines 120-123), as impacts
pattern_impacts(text_lower) ==
    Tuple([i \in 1..Len(EMOTION_PATTERNS) |->
        <<EMOTION_PATTERNS[i][1],
          <<2 * Cardinality({j \in 1..Len(EMOTION_PATTERNS[i][2]) :
                contains(text_lower, chars(EMOTION_PATTERNS[i][2][j]))}), 5>>>>])

\* Lines 107-123
text_values(emotions, text, context_type, context_confidence) ==
    IF text = <<>> THEN emotions
    ELSE add_impacts(
            add_impacts(emotions, phrase_impacts(lower(text), context_type),
                        context_confidence),
            pattern_impacts(lower(text)), context_confidence)

\* The impacts of hostility per unit of hostility (lines 147-177)
hostility_impacts(hostility, context_type, context_confidence) ==
    IF context_type = "friend"
    THEN <<<<"Surprised", <<2, 5>>>>, <<"Curious", <<3, 10>>>>, <<"Excited", <<1, 5>>>>,
           <<"Amused", <<3, 10>>>>>>
         \o (IF RatLess(<<7, 10>>, hostility)
             THEN <<<<"Confused", <<3, 10>>>>,
                    <<"Afraid", RatMax(<<1, 5>>, RatSub(One, context_confidence))>>>>
             ELSE <<>>)
    ELSE IF context_type = "enemy"
    THEN <<<<"Afraid", <<1, 2>>>>, <<"Angry", <<3, 10>>>>, <<"Disgusted", <<1, 5>>>>>>
         \o (IF RatLess(<<4, 5>>, context_confidence)
             THEN <<<<"Nervous", <<2, 5>>>>>>
             ELSE <<>>)
    ELSE <<<<"Surprised", <<3, 10>>>>, <<"Afraid", <<3, 10>>>>, <<"Curious", <<1, 5>>>>,
           <<"Confused", <<1, 5>>>>>>

\* Lines 128-177
sentiment_values(emotions, sentiment, context_type, context_confidence) ==
    LET positive == py_get(sentiment, "positive", Zero)
        negative == py_get(sentiment, "negative", Zero)
        hostility == py_get(sentiment, "hostility", Zero)
        e1 == IF RatLess(Zero, positive)
              THEN add_impacts(emotions,
                       <<<<"Happy", <<1, 2>>>>, <<"Excited", <<1, 4>>>>,
                         <<"Calm", <<3, 20>>>>, <<"Loving", <<1, 5>>>>,
                         <<"Proud", <<3, 20>>>>, <<"Grateful", <<3, 20>>>>>>,
                       positive)
              ELSE emotions
        e2 == IF RatLess(Zero, negative)
              THEN add_impacts(e1,
                       <<<<"Sad", <<2, 5>>>>, <<"Angry", <<3, 10>>>>,
                         <<"Disgusted", <<1, 5>>>>, <<"Nervous", <<1, 5>>>>>>,
                       negative)
              ELSE e1
    IN  IF RatLess(Zero, hostility)
        THEN add_impacts(e2, hostility_impacts(hostility, context_type, context_confidence),
                         hostility)
        ELSE e2

\* Lines 182-184
intensity_values(emotions, sentiment) ==
    LET intensity == py_get(sentiment, "intensity", <<1, 2>>)
    IN  Fn([e \in DOMAIN emotions |->
            RatMul(emotions[e], RatAdd(<<1, 2>>, RatDiv(intensity, <<2, 1>>)))])

\* emotions.items(), in the order of BASE_EMOTIONS
emotion_items(emotions) ==
    Tuple([i \in 1..Len(BASE_EMOTIONS) |->
            [k |-> BASE_EMOTIONS[i], v |-> emotions[BASE_EMOTIONS[i]]]])

\* Lines 189-206
feature_values(emotions, features, context_type) ==
    LET e1 == IF py_get(features, "is_question", FALSE)
              THEN add_impacts(emotions,
                       <<<<"Curious", <<3, 10>>>>, <<"Confused", <<1, 10>>>>>>, One)
              ELSE emotions
        top_emotions == SubSeq(sorted_desc(emotion_items(e1)), 1, 3)
        e2 == IF py_get(features, "exclamatory", FALSE)
              THEN Fn([e \in DOMAIN e1 |->
                        IF \E i \in 1..3 : top_emotions[i].k = e
                        THEN RatMul(e1[e], <<13, 10>>)
                        ELSE e1[e]])
              ELSE e1
    IN  IF ~py_get(features, "imperative", FALSE) THEN e2
        ELSE IF context_type = "friend"
        THEN add_impacts(e2, <<<<"Curious", <<1, 5>>>>>>, One)
        ELSE IF context_type = "enemy"
        THEN add_impacts(e2, <<<<"Angry", <<1, 5>>>>, <<"Disgusted", <<1, 10>>>>>>, One)
        ELSE e2

\* keyword_emotion_map[word] with one list per word, whatever the context type
keyword_impacts_uniform(word, context_type) ==
    LET hits == SelectSeq(keyword_emotion_map, LAMBDA entry : chars(entry[1]) = word)
    IN  IF hits = <<>> THEN <<>> ELSE hits[1][2]

\* keyword_emotion_map[word], the callable entries applied to the context type;
\* nothing for a word that is no key
keyword_impacts(word, context_type) ==
    LET hits == SelectSeq(keyword_emotion_map, LAMBDA entry : chars(entry[1]) = word)
    IN  IF hits = <<>> THEN <<>>
        ELSE IF Len(hits[1]) = 3 /\ context_type = "friend" THEN hits[1][3]
        ELSE hits[1][2]

\* The impacts of key_words[i..], word after word
RECURSIVE key_words_impacts(_, _, _)
key_words_impacts(key_words, i, context_type) ==
    IF i > Len(key_words) THEN <<>>
    ELSE keyword_impacts(lower(key_words[i]), context_type)
         \o key_words_impacts(key_words, i + 1, context_type)

\* Lines 209-270
keyword_values(emotions, key_words, context_type) ==
    add_impacts(emotions, key_words_impacts(key_words, 1, context_type), One)

\* Lines 275-278 with `weight` in the place of `weight * context_confidence`
weighted_values_unscaled(emotions, context_type, context_confidence) ==
    LET weights == CONTEXT_WEIGHTS(context_type)
    IN  Fn([e \in DOMAIN emotions |->
            IF \E i \in 1..Len(weights) : weights[i][1] = e
            THEN RatMul(emotions[e],
                        weights[CHOOSE i \in 1..Len(weights) : weights[i][1] = e][2])
            ELSE emotions[e]])

\* Lines 275-278
weighted_values(emotions, context_type, context_confidence) ==
    LET weights == CONTEXT_WEIGHTS(context_type)
    IN  Fn([e \in DOMAIN emotions |->
            IF \E i \in 1..Len(weights) : weights[i][1] = e
            THEN RatMul(emotions[e],
                        RatMul(weights[CHOOSE i \in 1..Len(weights) : weights[i][1] = e][2],
                               context_confidence))
            ELSE emotions[e]])

\* Lines 283-284
clamped_values(emotions) ==
    Fn([e \in DOMAIN emotions |-> RatMin(RatMax(emotions[e], Zero), One)])

\* The values before the context weighting (lines 96-270)
unweighted_values(semantic_analysis, context) ==
    LET sentiment == py_get(semantic_analysis, "sentiment", <<>>)
        features == py_get(semantic_analysis, "features", <<>>)
        context_type == py_get(context, "type", "unknown")
        context_confidence == py_get(context, "confidence", <<1, 2>>)
        text == py_get(semantic_analysis, "input_text", <<>>)
        e1 == text_values(base_values, text, context_type, context_confidence)
        e2 == sentiment_values(e1, sentiment, context_type, context_confidence)
        e3 == intensity_values(e2, sentiment)
        e4 == feature_values(e3, features, context_type)
    IN  keyword_values(e4, py_get(features, "key_words", <<>>), context_type)

\* Variant of map_to_emotions without the second normalization of lines 295-297.
map_to_emotions_filtered(semantic_analysis, context) ==
    LET context_type == py_get(context, "type", "unknown")
        context_confidence == py_get(context, "confidence", <<1, 2>>)
        weighted == weighted_values(unweighted_values(semantic_analysis, context),
                                    context_type, context_confidence)
        normalized == normalize(emotion_items(clamped_values(weighted)))
    IN  sorted_desc(dict_filter(normalized, <<3, 50>>))

\* Variant of map_to_emotions with the threshold 0.07 in the place of 0.06 (line 292)
map_to_emotions_strict(semantic_analysis, context) ==
    LET context_type == py_get(context, "type", "unknown")
        context_confidence == py_get(context, "confidence", <<1, 2>>)
        weighted == weighted_values(unweighted_values(semantic_analysis, context),
                                    context_type, context_confidence)
        normalized == normalize(emotion_items(clamped_values(weighted)))
    IN  sorted_desc(normalize(dict_filter(normalized, <<7, 100>>)))

\* map_to_emotions(semantic_analysis, context)
map_to_emotions(semantic_analysis, context) ==
    LET context_type == py_get(context, "type", "unknown")
        context_confidence == py_get(context, "confidence", <<1, 2>>)
        weighted == weighted_values(unweighted_values(semantic_analysis, context),
                                    context_type, context_confidence)
        normalized == normalize(emotion_items(clamped_values(weighted)))
    IN  sorted_desc(normalize(dict_filter(normalized, <<3, 50>>)))

----------------------------------------------------------------------------
(* modules/context_judgment.py: the classifier *)

\* None, like "" and {}, is <<>>: the code only tests these arguments for truth.
None == <<>>

\* The synonym table looked up without relationship.lower()
relationship_context_cased(relationship) ==
    IF relationship \in {chars("friend"), chars("ally"), chars("friendly"),
                         chars("positive")}
    THEN <<"friend", <<9, 10>>>>
    ELSE IF relationship \in {chars("enemy"), chars("hostile"), chars("negative"),
                              chars("adversary")}
    THEN <<"enemy", <<9, 10>>>>
    ELSE IF relationship \in {chars("neutral"), chars("stranger"), chars("acquaintance")}
    THEN <<"neutral", <<4, 5>>>>
    ELSE <<"unknown", <<1, 2>>>>

\* Lines 37-51: <<type, confidence>> from the relationship alone
relationship_context(relationship) ==
    LET rel == lower(relationship)
    IN  IF relationship = None THEN <<"unknown", <<1, 2>>>>
        ELSE IF rel \in {chars("friend"), chars("ally"), chars("friendly"),
                         chars("positive")}
        THEN <<"friend", <<9, 10>>>>
        ELSE IF rel \in {chars("enemy"), chars("hostile"), chars("negative"),
                         chars("adversary")}
        THEN <<"enemy", <<9, 10>>>>
        ELSE IF rel \in {chars("neutral"), chars("stranger"), chars("acquaintance")}
        THEN <<"neutral", <<4, 5>>>>
        ELSE <<"unknown", <<1, 2>>>>

\* Lines 61-68: the entries that count for `key` above `threshold`
indicators(history, key, threshold) ==
    LET entries == py_get(history, "entries", <<>>)
    IN  Cardinality({i \in 1..Len(entries) :
            /\ "sentiment" \in DOMAIN entries[i]
            /\ RatLess(threshold, py_get(entries[i].sentiment, key, Zero))})

\* The tally with hostility counted once like the other two signals
history_context_unweighted(history) ==
    LET friendly_indicators == indicators(history, "positive", <<3, 5>>)
        hostile_indicators == indicators(history, "negative", <<3, 5>>)
                              + indicators(history, "hostility", <<3, 10>>)
    IN  IF friendly_indicators > hostile_indicators * 2 THEN <<"friend", <<7, 10>>>>
        ELSE IF hostile_indicators > friendly_indicators THEN <<"enemy", <<7, 10>>>>
        ELSE <<"neutral", <<3, 5>>>>

\* Lines 54-79: <<type, confidence>> from the history
history_context(history) ==
    LET friendly_indicators == indicators(history, "positive", <<3, 5>>)
        hostile_indicators == indicators(history, "negative", <<3, 5>>)
                              + 2 * indicators(history, "hostility", <<3, 10>>)
    IN  IF friendly_indicators > hostile_indicators * 2 THEN <<"friend", <<7, 10>>>>
        ELSE IF hostile_indicators > friendly_indicators THEN <<"enemy", <<7, 10>>>>
        ELSE <<"neutral", <<3, 5>>>>

\* Lines 82-87: the flags copied from the metadata
metadata_flags(metadata) ==
    (IF py_get(metadata, "known_person", FALSE) = TRUE
     THEN [known_person |-> TRUE] ELSE <<>>)
    @@ (IF "relationship_duration" \in DOMAIN metadata
        THEN [relationship_duration |-> metadata.relationship_duration] ELSE <<>>)

\* determine_context(relationship, history, metadata)
determine_context(relationship, history, metadata) ==
    LET direct == relationship_context(relationship)
        judged == IF history # None /\ direct[1] = "unknown"
                  THEN history_context(history) ELSE direct
    IN  [type |-> judged[1], confidence |-> judged[2]] @@ metadata_flags(metadata)

----------------------------------------------------------------------------
(* modules/semantic_analysis.py: the annotator and the scorer *)

\* The items of a dict literal with str keys: <<key, value>>, the keys as Python strs
str_items(literal) ==
    Tuple([i \in 1..Len(literal) |-> <<chars(literal[i][1]), literal[i][2]>>])

\* key in d, d[key] for such items
has_key(d, key) == \E i \in 1..Len(d) : d[i][1] = key
item_value(d, key) == d[CHOOSE i \in 1..Len(d) : d[i][1] = key][2]

SENTIMENT_LEXICON ==
    <<<<"positive", str_items(<<
          <<"good", <<3, 5>>>>, <<"great", <<7, 10>>>>, <<"excellent", <<4, 5>>>>,
          <<"happy", <<7, 10>>>>, <<"love", <<9, 10>>>>, <<"like", <<1, 2>>>>,
          <<"nice", <<3, 5>>>>, <<"amazing", <<4, 5>>>>, <<"wonderful", <<4, 5>>>>,
          <<"joy", <<7, 10>>>>, <<"beautiful", <<7, 10>>>>,
          <<"fantastic", <<4, 5>>>>, <<"brilliant", <<7, 10>>>>,
          <<"awesome", <<4, 5>>>>, <<"enjoy", <<3, 5>>>>, <<"glad", <<3, 5>>>>,
          <<"pleased", <<1, 2>>>>, <<"delight", <<7, 10>>>>,
          <<"fabulous", <<7, 10>>>>, <<"superb", <<4, 5>>>>,
          <<"terrific", <<7, 10>>>>, <<"outstanding", <<7, 10>>>>,
          <<"perfect", <<4, 5>>>>, <<"positive", <<3, 5>>>>,
          <<"exciting", <<3, 5>>>>, <<"fun", <<1, 2>>>>, <<"lovely", <<3, 5>>>>,
          <<"pleasant", <<1, 2>>>>>>)>>,
      <<"negative", str_items(<<
          <<"bad", <<3, 5>>>>, <<"terrible", <<4, 5>>>>, <<"awful", <<4, 5>>>>,
          <<"sad", <<3, 5>>>>, <<"hate", <<9, 10>>>>, <<"dislike", <<3, 5>>>>,
          <<"horrible", <<4, 5>>>>, <<"disappointing", <<3, 5>>>>,
          <<"poor", <<1, 2>>>>, <<"ugly", <<3, 5>>>>, <<"stupid", <<7, 10>>>>,
          <<"annoying", <<3, 5>>>>, <<"unhappy", <<7, 10>>>>,
          <<"angry", <<7, 10>>>>, <<"depressed", <<7, 10>>>>,
          <<"frustrated", <<3, 5>>>>, <<"upset", <<3, 5>>>>,
          <<"furious", <<4, 5>>>>, <<"disgusting", <<4, 5>>>>,
          <<"pathetic", <<7, 10>>>>, <<"offensive", <<7, 10>>>>,
          <<"worthless", <<7, 10>>>>, <<"unpleasant", <<3, 5>>>>,
          <<"painful", <<7, 10>>>>, <<"miserable", <<7, 10>>>>,
          <<"rubbish", <<3, 5>>>>>>)>>,
      <<"hostile", str_items(<<
          <<"kill", <<9, 10>>>>, <<"hurt", <<7, 10>>>>, <<"destroy", <<4, 5>>>>,
          <<"hate", <<7, 10>>>>, <<"attack", <<4, 5>>>>, <<"fight", <<3, 5>>>>,
          <<"die", <<4, 5>>>>, <<"murder", <<9, 10>>>>, <<"threat", <<7, 10>>>>,
          <<"harm", <<7, 10>>>>, <<"violent", <<7, 10>>>>, <<"slap", <<3, 5>>>>,
          <<"punch", <<7, 10>>>>, <<"kick", <<3, 5>>>>, <<"shoot", <<4, 5>>>>,
          <<"eliminate", <<3, 5>>>>, <<"torture", <<4, 5>>>>, <<"hit", <<3, 5>>>>,
          <<"crush", <<7, 10>>>>, <<"annihilate", <<4, 5>>>>, <<"stab", <<4, 5>>>>,
          <<"poison", <<4, 5>>>>, <<"assault", <<4, 5>>>>, <<"abuse", <<7, 10>>>>,
          <<"strangle", <<4, 5>>>>>>)>>>>

INTENSIFIERS ==
    str_items(<<<<"very", <<3, 2>>>>, <<"extremely", <<9, 5>>>>,
                <<"really", <<13, 10>>>>, <<"incredibly", <<8, 5>>>>,
                <<"absolutely", <<17, 10>>>>, <<"definitely", <<7, 5>>>>,
                <<"totally", <<3, 2>>>>, <<"so", <<13, 10>>>>>>)

DIMINISHERS ==
    str_items(<<<<"slightly", <<1, 2>>>>, <<"somewhat", <<7, 10>>>>,
                <<"a bit", <<3, 5>>>>, <<"kind of", <<7, 10>>>>,
                <<"sort of", <<7, 10>>>>, <<"barely", <<3, 10>>>>,
                <<"hardly", <<3, 10>>>>, <<"almost", <<4, 5>>>>>>)

NEGATIONS ==
    {chars("not"), chars("no"), chars("never"), chars("none"), chars("nothing"),
     chars("neither"), chars("nor"), chars("nowhere"), chars("isn't"), chars("aren't"),
     chars("wasn't"), chars("weren't"), chars("haven't"), chars("hasn't"),
     chars("hadn't"), chars("don't"), chars("doesn't"), chars("didn't"),
     chars("won't"), chars("wouldn't"), chars("can't"), chars("couldn't"),
     chars("shouldn't"), chars("mustn't"), chars("without"), chars("nobody"),
     chars("n't"), chars("nt")}

\* s.endswith(suffix)
endswith(s, suffix) ==
    /\ Len(suffix) <= Len(s)
    /\ SubSeq(s, Len(s) - Len(suffix) + 1, Len(s)) = suffix

\* s.strip().endswith(c) for a character c that is no white space
strip_endswith(s, c) ==
    \E i \in 1..Len(s) : s[i] = c /\ \A j \in (i + 1)..Len(s) : is_space(s[j])

\* The scores of lines 147-153
ZeroScores ==
    [positive |-> Zero, negative |-> Zero, neutral |-> Zero, hostility |-> Zero,
     intensity |-> Zero]

\* Lines 306-324 for one lexicon: the scores after a word of `weight` in it
lexicon_scores(scores, sentiment_type, weight, negated) ==
    LET score_key == IF sentiment_type = "hostile" THEN "hostility" ELSE sentiment_type
    IN  IF ~negated THEN [scores EXCEPT ![score_key] = RatAdd(@, weight)]
        ELSE IF sentiment_type = "positive"
        THEN [scores EXCEPT !.negative = RatAdd(@, weight)]
        ELSE IF sentiment_type = "negative"
        THEN [scores EXCEPT !.positive = RatAdd(@, weight),
                            !.negative = RatSub(@, RatMul(weight, <<1, 2>>))]
        ELSE [scores EXCEPT ![score_key] = RatAdd(@, RatMul(weight, <<3, 10>>))]

\* The loop of lines 305-324 from lexicon k on
RECURSIVE word_scores(_, _, _, _, _)
word_scores(scores, word, negated, modifier, k) ==
    IF k > Len(SENTIMENT_LEXICON) THEN scores
    ELSE LET lexicon == SENTIMENT_LEXICON[k][2]
         IN  word_scores(
                IF has_key(lexicon, word)
                THEN lexicon_scores(scores, SENTIMENT_LEXICON[k][1],
                                    RatMul(item_value(lexicon, word), modifier), negated)
                ELSE scores,
                word, negated, modifier, k + 1)

\* process_sentiment_word with the modifier of lines 301-304 left at 1.0
process_sentiment_word_unmodified(word, scores, negated, intensifier, diminisher) ==
    LET added == word_scores(scores, word, negated, One, 1)
    IN  [key \in DOMAIN added |-> RatMax(Zero, added[key])]

\* process_sentiment_word(word, scores, negated, intensifier, diminisher): the scores
\* after the call; no modifier is Zero, which the code treats as it treats None
process_sentiment_word(word, scores, negated, intensifier, diminisher) ==
    LET modifier == IF intensifier # Zero THEN intensifier
                    ELSE IF diminisher # Zero THEN diminisher
                    ELSE One
        added == word_scores(scores, word, negated, modifier, 1)
    IN  [key \in DOMAIN added |-> RatMax(Zero, added[key])]

\* Lines 168-172
has_negation_phrases(text_lower) ==
    \E neg \in {chars("don't"), chars("doesn't"), chars("didn't"), chars("isn't"),
                 chars("aren't"), chars("wasn't"), chars("weren't"), chars("haven't"),
                 chars("hasn't"), chars("hadn't"), chars("can't"), chars("couldn't"),
                 chars("wouldn't"), chars("shouldn't"), chars("won't"), chars("not")} :
        contains(text_lower, neg)

\* Lines 180-182 for the token of Python index i
is_negation_token(tokens, i) ==
    LET token_lower == lower(tokens[i + 1].text)
    IN  \/ token_lower \in NEGATIONS
        \/ endswith(token_lower, chars("n't"))
        \/ endswith(token_lower, chars("nt"))
        \/ i > 0 /\ (lower(tokens[i].text) \o token_lower) \in NEGATIONS

\* Lines 199-203: a negation among the two tokens before the token of index i
negation_before(tokens, i) ==
    \E j \in (IF i - 2 > 0 THEN i - 2 ELSE 0)..(i - 1) :
        \/ lower(tokens[j + 1].text) \in NEGATIONS
        \/ endswith(lower(tokens[j + 1].text), chars("n't"))

\* token.lemma_.lower() of the token of Python index i
lemma_lower(tokens, i) == lower(tokens[i + 1].lemma)

\* The body of the loop of lines 175-244 for the token of Python index i; st holds
\* sentiment_scores, negation_active, negation_window and skip_indices
analyze_token(doc, i, st) ==
    LET tokens == doc.tokens
        n == Len(tokens)
        window == st.negation_window + 1
        still_active == st.negation_active /\ ~(window >= 4 \/ tokens[i + 1].is_punct)
        negation_active ==
            IF has_negation_phrases(lower(doc.text)) /\ ~still_active
            THEN negation_before(tokens, i)
            ELSE still_active
        st1 == [st EXCEPT !.negation_active = negation_active,
                          !.negation_window = IF st.negation_active THEN window ELSE @]
        word == lemma_lower(tokens, i)
        bigram == IF i < n - 1 THEN join2(word, lemma_lower(tokens, i + 1)) ELSE <<>>
        after_bigram(intensifier, diminisher) ==
            [st1 EXCEPT
                !.skip_indices = @ \cup {i + 1} \cup (IF i + 2 < n THEN {i + 2} ELSE {}),
                !.sentiment_scores =
                    IF i + 2 < n
                    THEN process_sentiment_word(lemma_lower(tokens, i + 2), @,
                                                negation_active, intensifier, diminisher)
                    ELSE @]
        after_modifier(intensifier, diminisher) ==
            [st1 EXCEPT
                !.skip_indices = @ \cup {i + 1},
                !.sentiment_scores =
                    process_sentiment_word(lemma_lower(tokens, i + 1), @,
                                           negation_active, intensifier, diminisher)]
    IN  IF i \in st.skip_indices THEN st
        ELSE IF is_negation_token(tokens, i)
        THEN [st EXCEPT !.negation_active = TRUE, !.negation_window = 0]
        ELSE IF i < n - 1 /\ has_key(DIMINISHERS, bigram)
        THEN after_bigram(Zero, item_value(DIMINISHERS, bigram))
        ELSE IF i < n - 1 /\ has_key(INTENSIFIERS, bigram)
        THEN after_bigram(item_value(INTENSIFIERS, bigram), Zero)
        ELSE IF has_key(INTENSIFIERS, word) /\ i + 1 < n
        THEN after_modifier(item_value(INTENSIFIERS, word), Zero)
        ELSE IF has_key(DIMINISHERS, word) /\ i + 1 < n
        THEN after_modifier(Zero, item_value(DIMINISHERS, word))
        ELSE [st1 EXCEPT !.sentiment_scores =
                process_sentiment_word(word, @, negation_active, Zero, Zero)]

\* The loop of lines 175-244 from the token of Python index i on
RECURSIVE analyze_tokens(_, _, _)
analyze_tokens(doc, i, st) ==
    IF i >= Len(doc.tokens) THEN st
    ELSE analyze_tokens(doc, i + 1, analyze_token(doc, i, st))

\* The prefixes of negated_patterns (lines 250-251)
NEGATED_PREFIXES ==
    <<chars("don't"), chars("doesn't"), chars("didn't"), chars("isn't"), chars("not"),
      chars("never")>>

\* <<sentiment_type, word, weight, prefix>> for every lexicon, word and pattern, in
\* the order of the loops of lines 248-252
negated_patterns ==
    LET lexicon_patterns(k) ==
            LET lexicon == SENTIMENT_LEXICON[k][2]
                m == Len(NEGATED_PREFIXES)
            IN  Tuple([q \in 1..(Len(lexicon) * m) |->
                    <<SENTIMENT_LEXICON[k][1], lexicon[((q - 1) \div m) + 1][1],
                      lexicon[((q - 1) \div m) + 1][2],
                      NEGATED_PREFIXES[((q - 1) % m) + 1]>>])
    IN  lexicon_patterns(1) \o lexicon_patterns(2) \o lexicon_patterns(3)

\* The rule of process_sentiment_word (lines 312-324) in the place of lines 255-266
pattern_scores_windowed(scores, sentiment_type, weight) ==
    IF sentiment_type = "negative"
    THEN [scores EXCEPT
            !.positive = RatAdd(@, weight),
            !.negative = RatMax(Zero, RatSub(@, RatMul(weight, <<1, 2>>)))]
    ELSE IF sentiment_type = "positive"
    THEN [scores EXCEPT !.negative = RatAdd(@, weight)]
    ELSE [scores EXCEPT !.hostility = RatAdd(@, RatMul(weight, <<3, 10>>))]

\* Lines 255-266 for one pattern found in the text
pattern_scores(scores, sentiment_type, weight) ==
    IF sentiment_type = "negative"
    THEN [scores EXCEPT
            !.positive = RatAdd(@, weight),
            !.negative = RatMax(Zero, RatSub(@, RatMul(weight, <<7, 10>>)))]
    ELSE IF sentiment_type = "positive"
    THEN [scores EXCEPT
            !.negative = RatAdd(@, RatMul(weight, <<7, 10>>)),
            !.positive = RatMax(Zero, RatSub(@, RatMul(weight, <<1, 2>>)))]
    ELSE [scores EXCEPT
            !.hostility = RatMax(Zero, RatSub(@, RatMul(weight, <<3, 5>>)))]

RECURSIVE patterns_scores(_, _, _)
patterns_scores(scores, found, q) ==
    IF q > Len(found) THEN scores
    ELSE patterns_scores(pattern_scores(scores, found[q][1], found[q][3]), found, q + 1)

\* Lines 247-266
phrase_scores(scores, text_lower) ==
    IF ~has_negation_phrases(text_lower) THEN scores
    ELSE patterns_scores(
            scores,
            SelectSeq(negated_patterns,
                      LAMBDA pattern : contains(text_lower, join2(pattern[4], pattern[2]))),
            1)

\* Variant of final_scores without the clamp of lines 277-280.
final_scores_unclamped(scores, doc) ==
    LET total_non_neutral == RatAdd(scores.positive, scores.negative)
    IN  [scores EXCEPT
            !.neutral = RatMax(Zero, RatSub(One, total_non_neutral)),
            !.intensity = RatMin(One, RatAdd(total_non_neutral, scores.hostility))]

\* Lines 269-280
final_scores(scores, doc) ==
    LET total_non_neutral == RatAdd(scores.positive, scores.negative)
        derived == [scores EXCEPT
            !.neutral = RatMax(Zero, RatSub(One, total_non_neutral)),
            !.intensity = RatMin(One, RatAdd(total_non_neutral, scores.hostility))]
        total_words == Cardinality({i \in 1..Len(doc.tokens) :
                            ~doc.tokens[i].is_punct /\ ~doc.tokens[i].is_space})
    IN  IF total_words > 0
        THEN [key \in DOMAIN derived |-> RatMin(One, derived[key])]
        ELSE derived

\* analyze_sentiment_enhanced(doc)
analyze_sentiment_enhanced(doc) ==
    IF Len(doc.tokens) = 0 THEN [ZeroScores EXCEPT !.neutral = One]
    ELSE LET st == analyze_tokens(doc, 0,
                       [sentiment_scores |-> ZeroScores, negation_active |-> FALSE,
                        negation_window |-> 0, skip_indices |-> {}])
         IN  final_scores(phrase_scores(st.sentiment_scores, lower(doc.text)), doc)

\* is_imperative(doc); a sentence is the pair of the places of its first and last token
is_imperative(doc) ==
    \E k \in 1..Len(doc.sents) : doc.tokens[doc.sents[k][1]].pos = "VERB"

\* Lines 98-107
doc_features(doc, text) ==
    [entities |-> doc.ents,
     noun_phrases |-> doc.noun_chunks,
     key_words |-> LET kept == SelectSeq(doc.tokens,
                                LAMBDA token : /\ token.pos \in {"VERB", "NOUN", "ADJ"}
                                               /\ ~token.is_stop)
                   IN  Tuple([i \in 1..Len(kept) |-> kept[i].text]),
     word_count |-> Cardinality({i \in 1..Len(doc.tokens) :
                        ~doc.tokens[i].is_punct /\ ~doc.tokens[i].is_space}),
     is_question |-> \/ \E i \in 1..Len(doc.tokens) : doc.tokens[i].tag = "?"
                     \/ strip_endswith(text, "?"),
     sentence_count |-> Len(doc.sents),
     imperative |-> is_imperative(doc),
     exclamatory |-> contains(text, <<"!">>)]

\* A token as the annotator gives it
Token(text, lemma, pos, tag, is_stop) ==
    [text |-> chars(text), lemma |-> chars(lemma), pos |-> pos, tag |-> tag,
     is_stop |-> is_stop, is_punct |-> pos = "PUNCT", is_space |-> pos = "SPACE"]

\* nlp(text) for the texts of the specifications: the annotations of a loaded model
Documents ==
    {[text |-> <<>>, tokens |-> <<>>, sents |-> <<>>, ents |-> <<>>,
      noun_chunks |-> <<>>],
     [text |-> chars("I love you"),
      tokens |-> <<Token("I", "I", "PRON", "PRP", TRUE),
                   Token("love", "love", "VERB", "VBP", FALSE),
                   Token("you", "you", "PRON", "PRP", TRUE)>>,
      sents |-> <<<<1, 3>>>>, ents |-> <<>>,
      noun_chunks |-> <<chars("I"), chars("you")>>],
     [text |-> chars("I don't hate you!"),
      tokens |-> <<Token("I", "I", "PRON", "PRP", TRUE),
                   Token("do", "do", "AUX", "VBP", TRUE),
                   Token("n't", "not", "PART", "RB", TRUE),
                   Token("hate", "hate", "VERB", "VB", FALSE),
                   Token("you", "you", "PRON", "PRP", TRUE),
                   Token("!", "!", "PUNCT", ".", FALSE)>>,
      sents |-> <<<<1, 6>>>>, ents |-> <<>>,
      noun_chunks |-> <<chars("I"), chars("you")>>],
     [text |-> chars("Kill Bill?"),
      tokens |-> <<Token("Kill", "kill", "VERB", "VB", FALSE),
                   Token("Bill", "Bill", "PROPN", "NNP", FALSE),
                   Token("?", "?", "PUNCT", ".", FALSE)>>,
      sents |-> <<<<1, 3>>>>,
      ents |-> <<[text |-> chars("Bill"), label |-> "PERSON"]>>,
      noun_chunks |-> <<chars("Bill")>>]}

nlp_doc(text) == CHOOSE doc \in Documents : doc.text = text

\* Variant of analyze_text without the test of lines 91-92: nlp(text) on None
analyze_text_unguarded(model, text) ==
    IF model = "None" THEN [raised |-> "TypeError", value |-> <<>>]
    ELSE [raised |-> "none",
          value |-> [features |-> doc_features(nlp_doc(text), text),
                     sentiment |-> analyze_sentiment_enhanced(nlp_doc(text))]]

\* analyze_text(text), with the model that the import bound to nlp
analyze_text(model, text) ==
    IF model = "None"
    THEN [raised |-> "none",
          value |-> [error |-> "Spacy model not loaded. Please install a model first."]]
    ELSE [raised |-> "none",
          value |-> [features |-> doc_features(nlp_doc(text), text),
                     sentiment |-> analyze_sentiment_enhanced(nlp_doc(text))]]

----------------------------------------------------------------------------
(* modules/integration.py: the orchestrator *)

\* next(iter(emotions), None); None is "None" here, a name of no emotion
dominant_emotion(emotions) == IF emotions = <<>> THEN "None" ELSE emotions[1].k

\* Lines 110-125: the response; similar_interactions is the list of lines 83-87
process_response(timestamp, text, debug, use_learning, semantic_analysis, context, similar_interactions, emotions) ==
    [emotions |-> emotions,
     dominant_emotion |-> dominant_emotion(emotions),
     input_text |-> text,
     context |-> py_get(context, "type", "unknown"),
     context_confidence |-> py_get(context, "confidence", Zero),
     timestamp |-> timestamp]
    @@ (IF debug
        THEN [debug |-> [semantic_analysis |->
                            IF use_learning /\ similar_interactions # <<>>
                            THEN [similar_responses |-> similar_interactions]
                                 @@ semantic_analysis
                            ELSE semantic_analysis,
                         context_full |-> context,
                         learning_applied |-> use_learning]]
        ELSE <<>>)

\* Lines 128-136: saved is the save_interaction of the learning branch, whose
\* exception leaves process_input with the store already changed
process_return(L, f, use_learning, response, saved) ==
    IF ~use_learning
    THEN [raised |-> "none", response |-> response, learner |-> L, file |-> f]
    ELSE IF saved.raised # "none"
    THEN [raised |-> saved.raised, response |-> <<>>, learner |-> saved.learner,
          file |-> saved.file]
    ELSE [raised |-> "none", response |-> response, learner |-> saved.learner,
          file |-> saved.file]

\* Variant of lines 81-136 that searches the store after save_interaction.
process_learned_recorded_first(L, f, writable, timestamp, text, debug, use_learning, feedback, semantic_analysis, context, emotions) ==
    LET context_type == py_get(context, "type", "unknown")
        saved == add_interaction(adjust_emotions_learner(L, text, context_type), f,
                                 writable, timestamp, text, emotions, context_type,
                                 feedback)
    IN  process_return(
            L, f, use_learning,
            process_response(timestamp, text, debug, use_learning, semantic_analysis,
                             context,
                             get_similar_interactions(saved.learner, text,
                                                      context_type, 3),
                             emotions),
            saved)

\* Lines 81-136, on the distribution of line 78 adjusted by lines 91-95
process_learned(L, f, writable, timestamp, text, debug, use_learning, feedback, semantic_analysis, context, emotions) ==
    LET context_type == py_get(context, "type", "unknown")
    IN  process_return(
            L, f, use_learning,
            process_response(timestamp, text, debug, use_learning, semantic_analysis,
                             context,
                             get_similar_interactions(L, text, context_type, 3),
                             emotions),
            add_interaction(adjust_emotions_learner(L, text, context_type), f, writable,
                            timestamp, text, emotions, context_type, feedback))

\* Lines 78-136, on the analysis of lines 62-65 and the context of lines 68-72
process_mapped(L, f, writable, timestamp, text, debug, use_learning, feedback, new_order, semantic_analysis, context, base) ==
    process_learned(L, f, writable, timestamp, text, debug, use_learning, feedback,
                    semantic_analysis, context,
                    IF use_learning
                    THEN adjust_emotions(L, text, py_get(context, "type", "unknown"),
                                         base, new_order)
                    ELSE base)

\* Lines 65-136, on the result of analyze_text (line 62)
process_analysed(L, f, writable, timestamp, text, debug, use_learning, feedback, new_order, analysis, context) ==
    IF analysis.raised # "none"
    THEN [raised |-> analysis.raised, response |-> <<>>, learner |-> L, file |-> f]
    ELSE process_mapped(L, f, writable, timestamp, text, debug, use_learning, feedback,
                        new_order, [input_text |-> text] @@ analysis.value, context,
                        map_to_emotions([input_text |-> text] @@ analysis.value, context))

\* process_input(text, relationship, history, metadata, debug, use_learning,
\* feedback) on the singleton learner L: the response, the learner and the file
\* after the call; new_order is the order in which adjust_emotions iterates its set
process_input(L, f, writable, model, timestamp, text, relationship, history, metadata, debug, use_learning, feedback, new_order) ==
    process_analysed(L, f, writable, timestamp, text, debug, use_learning, feedback,
                     new_order, analyze_text(model, text),
                     determine_context(relationship, history, metadata))

----------------------------------------------------------------------------
(* The calls of the front end on a learner *)

NoCall ==
    [op |-> "none", self |-> 0, text |-> <<>>, context |-> "", emotions |-> <<>>,
     limit |-> 0, argument |-> <<>>, indices |-> <<>>, result |-> <<>>,
     semantic_analysis |-> <<>>, context_full |-> <<>>, relationship |-> <<>>,
     history |-> <<>>, metadata |-> <<>>, debug |-> FALSE, use_learning |-> FALSE,
     response |-> <<>>, raised |-> "none"]

Instances == {1, 2}

\* context_learner = ContextLearner() (line 271), run when the module is imported
Construct(self) ==
    /\ learner[self].status = "absent"
    /\ LET made == ContextLearner_init(file)
       IN  /\ learner' = [learner EXCEPT ![self] = made.learner]
           /\ call' = [NoCall EXCEPT !.op = "init", !.self = self, !.raised = made.raised]
    /\ UNCHANGED <<file, disk_writable, clock, nlp>>

\* save_interaction / ContextLearner.add_interaction
RecordInteraction(self, text, emotions, context, feedback) ==
    /\ learner[self].status = "ready"
    /\ LET done == add_interaction(learner[self], file, disk_writable, clock,
                                   text, emotions, context, feedback)
       IN  /\ learner' = [learner EXCEPT ![self] = done.learner]
           /\ file' = done.file
           /\ call' = [NoCall EXCEPT !.op = "add_interaction", !.self = self,
                                     !.text = text, !.context = context,
                                     !.emotions = emotions, !.argument = feedback,
                                     !.raised = done.raised]
    /\ clock' = clock + 1
    /\ UNCHANGED <<disk_writable, nlp>>

\* adjust_emotions_with_learning / ContextLearner.adjust_emotions
AdjustEmotions(self, text, context, emotions) ==
    /\ learner[self].status = "ready"
    /\ \E new_order \in Orders(learner[self], text, context, emotions) :
        /\ call' = [NoCall EXCEPT
                !.op = "adjust_emotions", !.self = self, !.text = text,
                !.context = context, !.emotions = emotions,
                !.argument = adjust_emotions_argument(learner[self], text, context,
                                                      emotions, new_order),
                !.result = adjust_emotions(learner[self], text, context,
                                           emotions, new_order)]
    /\ learner' = [learner EXCEPT ![self] = adjust_emotions_learner(@, text, context)]
    /\ UNCHANGED <<file, disk_writable, clock, nlp>>

\* get_similar_emotional_responses / ContextLearner.get_similar_interactions
GetSimilarInteractions(self, text, context, limit) ==
    /\ learner[self].status = "ready"
    /\ call' = [NoCall EXCEPT
            !.op = "get_similar_interactions", !.self = self, !.text = text,
            !.context = context, !.limit = limit,
            !.indices = similar_indices(learner[self], text, context, limit),
            !.result = get_similar_interactions(learner[self], text, context, limit)]
    /\ UNCHANGED <<file, disk_writable, learner, clock, nlp>>

\* map_to_emotions(semantic_analysis, context)
MapToEmotions(semantic_analysis, context) ==
    /\ call' = [NoCall EXCEPT
            !.op = "map_to_emotions", !.semantic_analysis = semantic_analysis,
            !.context_full = context,
            !.result = map_to_emotions(semantic_analysis, context)]
    /\ UNCHANGED <<file, disk_writable, learner, clock, nlp>>

\* analyze_text(text)
AnalyzeText(text) ==
    /\ LET done == analyze_text(nlp, text)
       IN  call' = [NoCall EXCEPT !.op = "analyze_text", !.text = text,
                                  !.semantic_analysis = done.value,
                                  !.raised = done.raised]
    /\ UNCHANGED <<file, disk_writable, learner, clock, nlp>>

\* analyze_sentiment_enhanced(doc)
AnalyzeSentimentEnhanced(doc) ==
    /\ call' = [NoCall EXCEPT !.op = "analyze_sentiment_enhanced", !.argument = doc,
                              !.result = analyze_sentiment_enhanced(doc)]
    /\ UNCHANGED <<file, disk_writable, learner, clock, nlp>>

\* determine_context(relationship, history, metadata)
DetermineContext(relationship, history, metadata) ==
    /\ call' = [NoCall EXCEPT
            !.op = "determine_context", !.relationship = relationship,
            !.history = history, !.metadata = metadata,
            !.context_full = determine_context(relationship, history, metadata)]
    /\ UNCHANGED <<file, disk_writable, learner, clock, nlp>>

\* The orders in which the adjust_emotions of a process_input may iterate its set
process_orders(L, model, text, relationship, history, metadata, use_learning) ==
    LET context == determine_context(relationship, history, metadata)
        base == map_to_emotions([input_text |-> text] @@ analyze_text(model, text).value,
                                context)
    IN  IF use_learning
        THEN Orders(L, text, py_get(context, "type", "unknown"), base)
        ELSE {<<>>}

\* process_input(text, relationship, history, metadata, debug, use_learning, feedback);
\* importing the module has constructed the singleton learner
ProcessInput(text, relationship, history, metadata, debug, use_learning, feedback) ==
    /\ learner[1].status = "ready"
    /\ \E new_order \in process_orders(learner[1], nlp, text, relationship, history,
                                        metadata, use_learning) :
        \E done \in {process_input(learner[1], file, disk_writable, nlp, clock, text,
                                   relationship, history, metadata, debug,
                                   use_learning, feedback, new_order)} :
            /\ learner' = [learner EXCEPT ![1] = done.learner]
            /\ file' = done.file
            /\ call' = [NoCall EXCEPT
                    !.op = "process_input", !.self = 1, !.text = text,
                    !.relationship = relationship, !.history = history,
                    !.metadata = metadata, !.debug = debug,
                    !.use_learning = use_learning, !.argument = feedback,
                    !.response = done.response, !.raised = done.raised]
    /\ clock' = clock + 1
    /\ UNCHANGED <<disk_writable, nlp>>

----------------------------------------------------------------------------
(* SpecLearner: one learner, opened on any persisted file, small stores *)

MaxRecords == 2
MaxLimit == 2

T_empty == <<>>
T_hi == chars("hi")
T_Hi_you == chars("Hi you")
T_you_hi == chars("you hi")
T_bye == chars("bye")
T_you == chars("you")

LearnerTexts == {T_empty, T_hi, T_Hi_you, T_you_hi, T_bye}
LearnerContexts == {"friend", "enemy"}

D_happy == <<[k |-> "Happy", v |-> <<3, 5>>], [k |-> "Sad", v |-> <<2, 5>>]>>
D_tie == <<[k |-> "Sad", v |-> <<1, 2>>], [k |-> "Happy", v |-> <<1, 2>>]>>
\* neither normalized nor sorted, with one weight under 0.05
D_raw == <<[k |-> "Calm", v |-> <<1, 25>>], [k |-> "Angry", v |-> <<2, 5>>]>>

BaseDistributions == {D_happy, D_raw}

\* What the recordings of SpecLearner store: <<text, emotions, context>>
LearnerRecordings ==
    {T_empty, T_hi, T_Hi_you, T_you_hi}
        \X {<<D_happy, "friend">>, <<D_tie, "enemy">>}

\* An interaction written by an earlier session
PastInteraction(timestamp) ==
    new_interaction(timestamp, T_hi, D_happy, "friend", <<>>)

JsonFile(pytype, items) == [kind |-> "json", value |-> [pytype |-> pytype, items |-> items]]
MissingFile == [kind |-> "missing", value |-> PyList(<<>>)]
UnreadableFile == [kind |-> "unreadable", value |-> PyList(<<>>)]
MalformedFile == [kind |-> "malformed", value |-> PyList(<<>>)]
\* null, {"a": 1}, {}, [5], [] and a store of one interaction
NullFile == JsonFile("NoneType", <<>>)
ObjectFile == JsonFile("dict", <<[pytype |-> "str"]>>)
EmptyObjectFile == JsonFile("dict", <<>>)
NumbersFile == JsonFile("list", <<[pytype |-> "int"]>>)
EmptyListFile == JsonFile("list", <<>>)
OneRecordFile == JsonFile("list", <<PastInteraction(0)>>)

LearnerFiles ==
    {MissingFile, UnreadableFile, MalformedFile, NullFile, ObjectFile,
     EmptyObjectFile, NumbersFile, EmptyListFile, OneRecordFile}

InitLearner ==
    /\ file \in LearnerFiles
    /\ disk_writable = TRUE
    /\ nlp = "en_core_web_md"
    /\ learner = [i \in Instances |-> AbsentLearner]
    /\ clock = 1
    /\ call = NoCall

\* A query leaves the learner, the file and the clock as it found them
\* (C4_QueriesChangeNothing checks that on every query step), so the calls that can
\* follow a query are the calls that can follow the state before it.  Each state
\* that a constructor or a recording leaves is explored with every call; the state
\* that a query leaves is not explored again.
AfterUpdate ==
    \/ call.op \in {"none", "init", "add_interaction"}
    \/ call.op = "process_input" /\ call.use_learning

NextLearner ==
    \/ Construct(1)
    \/ \E recording \in LearnerRecordings :
            /\ AfterUpdate
            /\ clock <= MaxRecords
            /\ RecordInteraction(1, recording[1], recording[2][1], recording[2][2], <<>>)
    \/ \E text \in LearnerTexts, context \in LearnerContexts,
          emotions \in BaseDistributions :
            /\ AfterUpdate
            /\ AdjustEmotions(1, text, context, emotions)
    \/ \E text \in LearnerTexts, context \in LearnerContexts, limit \in 0..MaxLimit :
            /\ AfterUpdate
            /\ GetSimilarInteractions(1, text, context, limit)

SpecLearner == InitLearner /\ [][NextLearner]_vars

----------------------------------------------------------------------------
(* Properties of the learner's queries, checked on SpecLearner *)

\* The store that the last call ran on (a query leaves it as it was)
QueriedHistory == learner[call.self].interaction_history

\* The lowercase whitespace-split word set of a text
word_set(text) == Range(split(lower(text)))

\* C5: when the interaction store is empty, adjust returns the base distribution
\* unchanged (same entries, same weights, same order), for every text and context.
C5_EmptyStoreAdjustReturnsBase ==
    (call.op = "adjust_emotions" /\ QueriedHistory = <<>>) => call.result = call.emotions

\* C5 happens: adjust on an empty store, with a base distribution that is neither
\* normalized nor sorted and holds a weight under 0.05
C5_EmptyStoreAdjusted ==
    /\ call.op = "adjust_emotions"
    /\ QueriedHistory = <<>>
    /\ call.text = T_Hi_you
    /\ call.emotions = D_raw
    /\ call.result = D_raw

\* Jaccard similarity of the word sets, 1.0 on an exact (lowercase) text match
Jaccard(text, interaction) ==
    LET a == word_set(text)
        b == word_set(interaction.input_text)
    IN  IF lower(text) = lower(interaction.input_text) THEN One
        ELSE Rat(Cardinality(a \cap b), Cardinality(a \cup b))

\* C7: findSimilar returns only interactions of the query context that share a word
\* with the query, at most `limit` of them, in non-increasing order of similarity,
\* candidates of equal similarity in their store order.
C7_SimilarOnlyContextRankedStable ==
    call.op = "get_similar_interactions" =>
        LET history == QueriedHistory
            idx == call.indices
        IN  /\ Len(idx) <= call.limit
            /\ Len(call.result) = Len(idx)
            /\ \A j \in 1..Len(idx) :
                /\ idx[j] \in 1..Len(history)
                /\ call.result[j] = history[idx[j]]
                /\ history[idx[j]].context = call.context
                /\ word_set(call.text) \cap word_set(history[idx[j]].input_text) # {}
            /\ \A j \in 1..(Len(idx) - 1) :
                LET here == Jaccard(call.text, history[idx[j]])
                    next == Jaccard(call.text, history[idx[j + 1]])
                IN  \/ RatLess(next, here)
                    \/ here = next /\ idx[j] < idx[j + 1]

\* C7 happens: two candidates of equal similarity 1/2 and different texts are
\* returned in store order
C7_TiedCandidatesReturned ==
    /\ call.op = "get_similar_interactions"
    /\ call.text = T_hi
    /\ call.limit = 2
    /\ call.indices = <<1, 2>>
    /\ QueriedHistory[1].input_text = T_you_hi
    /\ QueriedHistory[2].input_text = T_Hi_you

\* Whether the store holds an interaction with the text and the context of the query
ExactMatchStored ==
    \E i \in 1..Len(QueriedHistory) :
        /\ QueriedHistory[i].context = call.context
        /\ QueriedHistory[i].input_text = call.text

\* C6 as stated: if the store holds an interaction whose context and text equal the
\* query's, findSimilar with limit >= 1 returns that interaction first.
C6_ExactMatchReturnedFirst ==
    (call.op = "get_similar_interactions" /\ call.limit >= 1 /\ ExactMatchStored) =>
        /\ call.indices # <<>>
        /\ QueriedHistory[call.indices[1]].context = call.context
        /\ QueriedHistory[call.indices[1]].input_text = call.text

\* C6 amended: if the query has at least one word and the store holds an interaction
\* whose context and text equal the query's, findSimilar with limit >= 1 returns
\* first, with similarity 1.0, the earliest interaction of the query context whose
\* lowercase word set equals the query's.
C6_EarliestSameWordsReturnedFirst ==
    (/\ call.op = "get_similar_interactions"
     /\ call.limit >= 1
     /\ word_set(call.text) # {}
     /\ ExactMatchStored) =>
        /\ call.indices # <<>>
        /\ LET same_words(i) ==
                /\ QueriedHistory[i].context = call.context
                /\ word_set(QueriedHistory[i].input_text) = word_set(call.text)
               first == call.indices[1]
           IN  /\ same_words(first)
               /\ \A i \in 1..(first - 1) : ~same_words(i)
               /\ Jaccard(call.text, QueriedHistory[first]) = One

\* C6 amended happens: the exact match is the second interaction, and the first one,
\* of the same words in another order, is returned before it
C6_EarlierSameWordsFirst ==
    /\ call.op = "get_similar_interactions"
    /\ call.text = T_Hi_you
    /\ call.limit >= 1
    /\ Len(QueriedHistory) = 2
    /\ QueriedHistory[1].input_text = T_you_hi
    /\ QueriedHistory[2].input_text = T_Hi_you
    /\ QueriedHistory[1].context = call.context
    /\ QueriedHistory[2].context = call.context
    /\ call.indices[1] = 1

\* Whether the persisted file holds a JSON list of interaction records
IsInteractionList(f) ==
    /\ f.kind = "json"
    /\ f.value.pytype = "list"
    /\ \A i \in 1..Len(f.value.items) : is_dict(f.value.items[i])

\* C8 as stated: on a file that is missing, unreadable or not a valid sequence of
\* interaction records the learner initializes with an empty store and raises no
\* error, and every later recordInteraction, adjust and findSimilar succeeds (the
\* file of SpecLearner is always writable, so a call only fails on what was loaded).
C8_InvalidFileStartsEmptyStore ==
    /\ (call.op = "init" /\ ~IsInteractionList(file)) =>
            /\ call.raised = "none"
            /\ learner[call.self].status = "ready"
            /\ learner[call.self].pytype = "list"
            /\ learner[call.self].interaction_history = <<>>
    /\ call.op \in {"add_interaction", "adjust_emotions", "get_similar_interactions"} =>
            call.raised = "none"

----------------------------------------------------------------------------
(* SpecCap: one learner, opened on a store that earlier sessions filled to the cap *)

MaxCapRoom == 2
MaxCapRecords == 2

\* The oldest interaction of the full store, the only one of its text and context
OldestInteraction == new_interaction(-HISTORY_LIMIT, T_bye, D_tie, "enemy", <<>>)

\* A store of n interactions, written by earlier sessions
CapFile(n) ==
    JsonFile("list",
             <<OldestInteraction>> \o [i \in 1..(n - 1) |-> PastInteraction(i - n)])

\* What the recordings of SpecCap store: <<text, emotions, context>>
CapRecordings ==
    {T_empty, T_Hi_you} \X {<<D_happy, "friend">>, <<D_tie, "enemy">>}

\* The texts that SpecCap adjusts: their words are held by the few interactions
\* around the padding, which keeps the exact weights within TLC's integers
CapQueryTexts == {T_bye, T_you}

InitCap ==
    /\ file \in {CapFile(HISTORY_LIMIT - room) : room \in 0..MaxCapRoom}
    /\ disk_writable = TRUE
    /\ nlp = "en_core_web_md"
    /\ learner = [i \in Instances |-> AbsentLearner]
    /\ clock = 1
    /\ call = NoCall

NextCap ==
    \/ Construct(1)
    \/ \E recording \in CapRecordings :
            /\ AfterUpdate
            /\ clock <= MaxCapRecords
            /\ RecordInteraction(1, recording[1], recording[2][1], recording[2][2], <<>>)
    \/ \E text \in CapQueryTexts, emotions \in BaseDistributions :
            /\ AfterUpdate
            /\ AdjustEmotions(1, text, "friend", emotions)

SpecCap == InitCap /\ [][NextCap]_vars

----------------------------------------------------------------------------
(* Properties of the store and the tables, checked on SpecCap *)

\* C2: a recordInteraction leaves at most 1000 interactions in the store: on a store
\* of fewer than 1000 it appends the new record; on a store of 1000 it evicts exactly
\* the oldest record, keeps the other 999 in their order and puts the new record last.
C2_RecordKeepsThousandMostRecent ==
    [][call'.op = "add_interaction" =>
        LET before == learner[call'.self].interaction_history
            after == learner'[call'.self].interaction_history
            new == after[Len(after)]
        IN  /\ Len(after) <= 1000
            /\ after # <<>>
            /\ new.timestamp = clock
            /\ new.input_text = call'.text
            /\ new.emotions = call'.emotions
            /\ new.context = call'.context
            /\ IF Len(before) < 1000
               THEN after = Append(before, new)
               ELSE after = Append(SubSeq(before, 2, 1000), new)
            /\ file' = JsonFile("list", after)]_vars

\* C2 happens: a recording on a full store has evicted the oldest interaction
C2_OldestEvicted ==
    /\ call.op = "add_interaction"
    /\ Len(learner[1].interaction_history) = 1000
    /\ learner[1].interaction_history[1] = PastInteraction(1 - HISTORY_LIMIT)
    /\ learner[1].interaction_history[1000].timestamp = clock - 1

\* The sum of terms[lo..hi]
RECURSIVE SumRange(_, _, _)
SumRange(terms, lo, hi) ==
    IF lo > hi THEN Zero
    ELSE IF lo = hi THEN terms[lo]
    ELSE LET mid == (lo + hi) \div 2
         IN  RatAdd(SumRange(terms, lo, mid), SumRange(terms, mid + 1, hi))

\* The tables stated over a store: word -> emotion is the sum of the emotion's stored
\* weight over every occurrence of the word, bigram -> emotion is 1.2 times the sum
\* over every occurrence of the pair, context -> emotion counts the interactions of
\* the context whose (first) highest-weighted emotion is the emotion; only the
\* interactions in `counted` contribute.
TablesStatedOver(history, counted) ==
    LET parsed == Tuple([i \in 1..Len(history) |->
                    LET words == split(lower(history[i].input_text))
                    IN  [words |-> words, pairs |-> bigrams(words)]])
        keys_of(kind) == UNION {Range(parsed[i][kind]) : i \in counted}
        emotions_of(kind, key) ==
            UNION {dict_keys(history[i].emotions) :
                    i \in {j \in counted : key \in Range(parsed[j][kind])}}
        weight(kind, key, e, scale) ==
            SumRange(Tuple([i \in 1..Len(history) |->
                        IF i \in counted
                        THEN RatMul(<<occurrences(parsed[i][kind], key), 1>>,
                                    RatMul(dict_get(history[i].emotions, e, Zero), scale))
                        ELSE Zero]),
                     1, Len(history))
        dominant_of(c) ==
            {dict_argmax(history[i].emotions) : i \in {j \in counted : history[j].context = c}}
    IN  [word |-> [w \in keys_of("words") |->
                    [e \in emotions_of("words", w) |-> weight("words", w, e, One)]],
         phrase |-> [b \in keys_of("pairs") |->
                    [e \in emotions_of("pairs", b) |-> weight("pairs", b, e, <<6, 5>>)]],
         context |-> [c \in {history[i].context : i \in counted} |->
                    [e \in dominant_of(c) |->
                        <<Cardinality({i \in counted :
                            /\ history[i].context = c
                            /\ dict_argmax(history[i].emotions) = e}), 1>>]]]

\* The tables that a learner holds
TablesOf(L) ==
    [word |-> L.word_emotion_associations,
     phrase |-> L.phrase_emotion_associations,
     context |-> L.context_emotion_associations]

\* C3 as stated: after initialization and after every recordInteraction the tables
\* are the sums and counts over every interaction of the current store.
C3_TablesSumOverStore ==
    (call.op \in {"init", "add_interaction"} /\ learner[1].status = "ready") =>
        TablesOf(learner[1]) =
            TablesStatedOver(learner[1].interaction_history,
                             1..Len(learner[1].interaction_history))

\* C3 amended: after initialization and after every recordInteraction the tables are
\* the sums and counts over the interactions of the current (already truncated) store
\* that have a non-empty text and a non-empty distribution; ties for the highest
\* weight go to the emotion stored first; nothing of an evicted record remains.
C3_TablesSumOverTextedStore ==
    (call.op \in {"init", "add_interaction"} /\ learner[1].status = "ready") =>
        LET history == learner[1].interaction_history
        IN  TablesOf(learner[1]) =
                TablesStatedOver(history,
                    {i \in 1..Len(history) :
                        history[i].input_text # <<>> /\ history[i].emotions # <<>>})

\* C3 amended happens: the oldest interaction, the only one of context "enemy" and
\* of text "bye", was evicted by a recording of an empty text, and the tables hold
\* neither the context nor the word
C3_EvictedLeavesNoTrace ==
    /\ call.op = "add_interaction"
    /\ call.text = T_empty
    /\ call.context = "friend"
    /\ Len(learner[1].interaction_history) = 1000
    /\ learner[1].interaction_history[1] = PastInteraction(1 - HISTORY_LIMIT)
    /\ learner[1].interaction_history[1000].input_text = T_empty
    /\ T_bye \notin DOMAIN learner[1].word_emotion_associations
    /\ DOMAIN learner[1].context_emotion_associations = {"friend"}

----------------------------------------------------------------------------
(* SpecComposer: map_to_emotions applied to one input of a grid *)

GridSteps == 2

\* 0, 1/GridSteps, ..., 1
Levels == {Rat(k, GridSteps) : k \in 0..GridSteps}

\* The scores the composer reads; neutral as line 270 of the scorer derives it
SentimentScores ==
    {[positive |-> p, negative |-> n,
      neutral |-> RatMax(Zero, RatSub(One, RatAdd(p, n))),
      hostility |-> h, intensity |-> i] : p \in Levels, n \in Levels, h \in Levels,
                                          i \in Levels}

\* key_words: none, and words of both cases, in and out of keyword_emotion_map
ComposerKeyWords == {<<>>, <<chars("Love"), chars("kill"), chars("table")>>}

ComposerFeatures ==
    {[is_question |-> q, exclamatory |-> e, imperative |-> i, key_words |-> k] :
        q \in BOOLEAN, e \in BOOLEAN, i \in BOOLEAN, k \in ComposerKeyWords}

ComposerTexts ==
    {<<>>, chars("I LOVE you, thank you!"), chars("not sure, just kidding")}

\* The analyses of analyze_text with input_text added (integration.py, lines 62-65)
ComposerAnalyses ==
    {[features |-> f, sentiment |-> s, input_text |-> t] :
        f \in ComposerFeatures, s \in SentimentScores, t \in ComposerTexts}
    \cup {[error |-> "Spacy model not loaded. Please install a model first.",
           input_text |-> t] : t \in ComposerTexts}

ClassifierRelationships ==
    {None, chars("Friend"), chars("hostile"), chars("stranger"), chars("boss")}

HistoryEntry(positive, negative, hostility) ==
    [sentiment |-> [positive |-> positive, negative |-> negative,
                    hostility |-> hostility]]

ClassifierHistories ==
    {None,
     [entries |-> <<HistoryEntry(<<4, 5>>, <<1, 10>>, Zero)>>],
     [entries |-> <<HistoryEntry(<<1, 10>>, <<7, 10>>, <<2, 5>>)>>],
     [entries |-> <<HistoryEntry(<<4, 5>>, Zero, Zero), [text |-> chars("hi")],
                    HistoryEntry(Zero, <<7, 10>>, Zero)>>]}

\* Every Context the classifier returns on these arguments
ClassifierContexts ==
    {determine_context(r, h, None) :
        r \in ClassifierRelationships, h \in ClassifierHistories}

InitComposer ==
    /\ file = MissingFile
    /\ disk_writable = TRUE
    /\ nlp = "en_core_web_md"
    /\ learner = [i \in Instances |-> AbsentLearner]
    /\ clock = 1
    /\ \E semantic_analysis \in ComposerAnalyses, context \in ClassifierContexts :
            call = [NoCall EXCEPT !.semantic_analysis = semantic_analysis,
                                  !.context_full = context]

NextComposer ==
    /\ call.op = "none"
    /\ MapToEmotions(call.semantic_analysis, call.context_full)

SpecComposer == InitComposer /\ [][NextComposer]_vars

----------------------------------------------------------------------------
(* The composer's distribution *)

\* The items of d are in the order of non-increasing value
NonIncreasing(d) == \A i \in 1..(Len(d) - 1) : RatLeq(d[i + 1].v, d[i].v)

\* C1: for every sentiment score with fields in [0, 1], every combination of the
\* features, every text and every context of the classifier, the weights that
\* map_to_emotions returns sum to 1, each of them lies in [0.06, 1], and they come
\* in non-increasing order.
C1_ComposerNormalizedAndSorted ==
    call.op = "map_to_emotions" =>
        /\ dict_sum(call.result) = One
        /\ \A i \in 1..Len(call.result) :
                /\ RatLeq(<<3, 50>>, call.result[i].v)
                /\ RatLeq(call.result[i].v, One)
        /\ NonIncreasing(call.result)

\* A call on a full score, with an exclamation and key words, that drops emotions
\* under the threshold and so returns weights of the second normalization
C1_EmotionsDroppedAndRescaled ==
    /\ call.op = "map_to_emotions"
    /\ "sentiment" \in DOMAIN call.semantic_analysis
    /\ call.semantic_analysis.sentiment.positive = One
    /\ call.semantic_analysis.sentiment.hostility = <<1, 2>>
    /\ call.semantic_analysis.features.exclamatory
    /\ call.semantic_analysis.features.key_words # <<>>
    /\ call.semantic_analysis.input_text # <<>>
    /\ call.context_full.type = "friend"
    /\ Len(call.result) \in 2..(Len(BASE_EMOTIONS) - 1)
    /\ RatLess(call.result[Len(call.result)].v, call.result[1].v)
    /\ call.result # map_to_emotions_filtered(call.semantic_analysis, call.context_full)

----------------------------------------------------------------------------
(* SpecPipeline: the front end calls process_input and the stages on their own *)

MaxProcessed == 1

PipelineTexts == {doc.text : doc \in Documents}

\* A store of one interaction whose text shares words with the texts of the calls
PipelineStoreFile ==
    JsonFile("list", <<new_interaction(0, chars("I love you"), D_happy, "friend", <<>>)>>)

\* A store of ten interactions of one text: a learning factor of 0.1
PipelineLearnedFile ==
    JsonFile("list",
             [i \in 1..10 |-> new_interaction(i - 10, chars("Kill Bill?"), D_happy,
                                              "friend", <<>>)])

\* <<relationship, history, metadata>>
PipelineRelations ==
    {<<None, None, None>>,
     <<chars("Friend"), None, [known_person |-> TRUE]>>,
     <<None, [entries |-> <<HistoryEntry(<<1, 10>>, <<7, 10>>, <<2, 5>>)>>], None>>,
     <<chars("boss"), [entries |-> <<HistoryEntry(<<4, 5>>, Zero, Zero)>>],
       [known_person |-> FALSE, relationship_duration |-> 3]>>}

\* <<debug, use_learning, feedback>>
PipelineOptions ==
    {<<FALSE, FALSE, None>>, <<TRUE, FALSE, None>>, <<FALSE, TRUE, None>>,
     <<TRUE, TRUE, D_tie>>}

PipelineAnalyses ==
    {[input_text |-> text] @@ analyze_text(model, text).value :
        model \in {"None", "en_core_web_sm"}, text \in PipelineTexts}

\* The composer's distribution for a text without analysis under no context: all
\* 15 emotions, so that an adjustment of it adds none
PipelineDistributions ==
    {map_to_emotions([input_text |-> None] @@ analyze_text("None", None).value,
                     determine_context(None, None, None))}

InitPipeline ==
    /\ file \in {MissingFile, PipelineStoreFile, PipelineLearnedFile}
    /\ disk_writable \in BOOLEAN
    /\ nlp \in {"None", "en_core_web_sm"}
    /\ learner = [i \in Instances |-> AbsentLearner]
    /\ clock = 1
    /\ call = NoCall

NextPipeline ==
    \/ Construct(1)
    \/ \E text \in PipelineTexts, relation \in PipelineRelations,
          options \in PipelineOptions :
            /\ AfterUpdate
            /\ clock <= MaxProcessed
            /\ ProcessInput(text, relation[1], relation[2], relation[3],
                            options[1], options[2], options[3])
    \/ \E text \in PipelineTexts :
            /\ AfterUpdate
            /\ AnalyzeText(text)
    \/ \E relation \in PipelineRelations :
            /\ AfterUpdate
            /\ DetermineContext(relation[1], relation[2], relation[3])
    \/ \E semantic_analysis \in PipelineAnalyses, context \in ClassifierContexts :
            /\ AfterUpdate
            /\ MapToEmotions(semantic_analysis, context)
    \/ \E text \in PipelineTexts, context \in LearnerContexts,
          emotions \in PipelineDistributions :
            \* on the stores of the file and of RecordInteraction, whose weights
            \* keep the sums of adjust_emotions within the integers of the checker
            /\ call.op \in {"init", "add_interaction"}
            /\ AdjustEmotions(1, text, context, emotions)
    \/ \E text \in PipelineTexts, context \in LearnerContexts :
            /\ AfterUpdate
            /\ GetSimilarInteractions(1, text, context, 3)
    \/ \E text \in PipelineTexts :
            /\ AfterUpdate
            /\ clock <= MaxProcessed
            /\ RecordInteraction(1, text, D_happy, "friend", None)

SpecPipeline == InitPipeline /\ [][NextPipeline]_vars

----------------------------------------------------------------------------
(* The pipeline *)

\* The calls that the contract lets only read the store, the tables and the file
ReadOnlyCalls ==
    {"adjust_emotions", "get_similar_interactions", "analyze_text",
     "determine_context", "map_to_emotions"}

\* C4: a step of adjust_emotions, get_similar_interactions, analyze_text,
\* determine_context, map_to_emotions, or of process_input called with
\* use_learning=False, leaves the interaction store, the three association tables
\* (their keys included) and the persisted file as they were, and adjust_emotions
\* leaves the dict passed to it as it was.
C4_QueriesChangeNothing ==
    [][(\/ call'.op \in ReadOnlyCalls
        \/ call'.op = "process_input" /\ ~call'.use_learning)
       => /\ learner' = learner
          /\ file' = file
          /\ call'.op = "adjust_emotions" => call'.argument = call'.emotions]_vars

\* adjust_emotions has changed a distribution on a store that has interactions, for
\* a text with a word, and a context, that the tables do not hold
C4_AdjustedOnLearnedStore ==
    /\ call.op = "adjust_emotions"
    /\ learner[1].interaction_history # <<>>
    /\ call.result # call.emotions
    /\ \E word \in word_set(call.text) :
            word \notin DOMAIN learner[1].word_emotion_associations
    /\ call.context \notin DOMAIN learner[1].context_emotion_associations

\* C9: process_input never raises to its caller: every call returns a response
\* with its emotions, whatever stage failed.
C9_ProcessNeverRaises ==
    call.op = "process_input" =>
        /\ call.raised = "none"
        /\ "emotions" \in DOMAIN call.response

\* The sentiment that the composer reads when the analysis holds none
DefaultSentiment == [positive |-> Zero, negative |-> Zero, hostility |-> Zero]

\* C10: with the model not loaded (nlp is None), analyze_text returns the dict of
\* the single key "error" without raising, and a process_input whose save does not
\* fail returns a response whose emotions are not empty, are positive and sum to 1;
\* with debug the response shows the error, and without learning the emotions are
\* the composer's for the text and the context under a sentiment whose positive,
\* negative and hostility scores are 0.
C10_UnavailableAnnotatorDefaultSentiment ==
    nlp = "None" =>
        /\ call.op = "analyze_text" =>
            /\ call.raised = "none"
            /\ DOMAIN call.semantic_analysis = {"error"}
        /\ (call.op = "process_input" /\ (call.use_learning => disk_writable)) =>
            /\ call.raised = "none"
            /\ call.response.emotions # <<>>
            /\ dict_sum(call.response.emotions) = One
            /\ \A i \in 1..Len(call.response.emotions) :
                    RatLess(Zero, call.response.emotions[i].v)
            /\ call.debug => "error" \in DOMAIN call.response.debug.semantic_analysis
            /\ ~call.use_learning =>
                    call.response.emotions =
                        map_to_emotions(
                            [input_text |-> call.text, sentiment |-> DefaultSentiment],
                            determine_context(call.relationship, call.history,
                                              call.metadata))

\* process_input has returned, without the model and with learning, the emotions of
\* a text that the store holds, and has recorded the interaction
C10_ProcessedWithoutModel ==
    /\ nlp = "None"
    /\ call.op = "process_input"
    /\ call.raised = "none"
    /\ call.use_learning
    /\ call.debug
    /\ call.text = chars("I love you")
    /\ Len(learner[1].interaction_history) = 2
    /\ call.response.dominant_emotion = "Happy"
    /\ "similar_responses" \in DOMAIN call.response.debug.semantic_analysis

\* C11 as stated: the emotions of every response of process_input sum to 1 and
\* each of them is at least 0.06, also after adjust_emotions on a store that is not
\* empty.
C11_ResponseWeightsAtLeastComposerFilter ==
    (call.op = "process_input" /\ call.raised = "none") =>
        /\ dict_sum(call.response.emotions) = One
        /\ \A i \in 1..Len(call.response.emotions) :
                RatLeq(<<3, 50>>, call.response.emotions[i].v)

\* C11, amended: the emotions of every response of process_input sum to 1; each of
\* them is at least 0.06 when the learner has not adjusted them (no learning, or a
\* store that was empty before the call) and at least 0.05, the filter of
\* adjust_emotions, when it has.
C11_ResponseWeightsAtLeastLearnerFilter ==
    (call.op = "process_input" /\ call.raised = "none") =>
        /\ dict_sum(call.response.emotions) = One
        /\ \A i \in 1..Len(call.response.emotions) :
                RatLeq(<<1, 20>>, call.response.emotions[i].v)
        /\ (~call.use_learning \/ Len(learner[1].interaction_history) = 1) =>
                \A i \in 1..Len(call.response.emotions) :
                    RatLeq(<<3, 50>>, call.response.emotions[i].v)

\* process_input has returned emotions that adjust_emotions brought below 0.06
C11_AdjustedWeightBelowComposerFilter ==
    /\ call.op = "process_input"
    /\ call.raised = "none"
    /\ call.use_learning
    /\ Len(learner[1].interaction_history) > 1
    /\ \E i \in 1..Len(call.response.emotions) :
            RatLess(call.response.emotions[i].v, <<3, 50>>)

----------------------------------------------------------------------------
(* SpecScorer: analyze_sentiment_enhanced on every document of a few tokens *)

MaxTokens == 4

\* The tokens of the documents, as the annotator gives them
ScorerTokens ==
    {Token("do", "do", "AUX", "VBP", TRUE),
     Token("n't", "not", "PART", "RB", TRUE),
     Token("not", "not", "PART", "RB", TRUE),
     Token("very", "very", "ADV", "RB", TRUE),
     Token("notice", "notice", "VERB", "VBP", FALSE),
     Token("whenever", "whenever", "SCONJ", "WRB", TRUE),
     Token("love", "love", "VERB", "VBP", FALSE),
     Token("hate", "hate", "VERB", "VBP", FALSE),
     Token("kill", "kill", "VERB", "VBP", FALSE),
     Token(",", ",", "PUNCT", ",", FALSE)}

\* The tokenizer splits "n't" from an auxiliary only
TokenizerOutput(tokens) ==
    \A i \in 1..Len(tokens) :
        tokens[i].text = chars("n't") => i > 1 /\ tokens[i - 1].text = chars("do")

\* doc.text: the tokens with the white space between them, none before "n't" and ","
RECURSIVE doc_text(_, _)
doc_text(tokens, i) ==
    IF i > Len(tokens) THEN <<>>
    ELSE tokens[i].text
         \o (IF i < Len(tokens) /\ tokens[i + 1].text # chars("n't")
                /\ ~tokens[i + 1].is_punct
             THEN <<" ">> ELSE <<>>)
         \o doc_text(tokens, i + 1)

ScorerDoc(tokens) ==
    [text |-> doc_text(tokens, 1), tokens |-> tokens,
     sents |-> IF tokens = <<>> THEN <<>> ELSE <<<<1, Len(tokens)>>>>,
     ents |-> <<>>, noun_chunks |-> <<>>]

ScorerDocs ==
    {ScorerDoc(tokens) :
        tokens \in {t \in UNION {[1..n -> ScorerTokens] : n \in 0..MaxTokens} :
                        TokenizerOutput(t)}}

InitScorer ==
    /\ file = MissingFile
    /\ disk_writable = TRUE
    /\ nlp = "en_core_web_md"
    /\ learner = [i \in Instances |-> AbsentLearner]
    /\ clock = 1
    /\ \E doc \in ScorerDocs : call = [NoCall EXCEPT !.argument = doc]

NextScorer ==
    /\ call.op = "none"
    /\ AnalyzeSentimentEnhanced(call.argument)

SpecScorer == InitScorer /\ [][NextScorer]_vars

----------------------------------------------------------------------------
(* The scorer's sentiment *)

\* The lexicons that hold the lemma of the token at place p
LexiconsOf(tokens, p) ==
    {SENTIMENT_LEXICON[k][1] : k \in {k \in 1..Len(SENTIMENT_LEXICON) :
        has_key(SENTIMENT_LEXICON[k][2], lower(tokens[p].lemma))}}

\* The token at place p is a negation trigger: a negation word, a word that ends in
\* a contraction suffix, or the second half of a negation word
NegationTrigger(tokens, p) ==
    LET word == lower(tokens[p].text)
    IN  \/ word \in NEGATIONS
        \/ endswith(word, chars("n't"))
        \/ endswith(word, chars("nt"))
        \/ p > 1 /\ (lower(tokens[p - 1].text) \o word) \in NEGATIONS

\* The token at place p is the only token of a lexicon, and the negative lexicon
\* holds it
OnlyNegativeWord(tokens, p) ==
    /\ "negative" \in LexiconsOf(tokens, p)
    /\ \A q \in 1..Len(tokens) : q # p => LexiconsOf(tokens, q) = {}

\* A trigger at most three tokens before place p, with no punctuation in between,
\* has the token at place p in its scope
NegatedAt(tokens, p) ==
    \E j \in 1..(p - 1) :
        /\ p - j <= 3
        /\ NegationTrigger(tokens, j)
        /\ \A q \in (j + 1)..p : ~tokens[q].is_punct

\* C12: when the only lexicon word of the tokens is a word of the negative lexicon,
\* the scores have positive > negative if a negation trigger before the word has it
\* in its scope, and negative > positive if no token is a negation trigger.
C12_NegationFlipsNegativeWord ==
    call.op = "analyze_sentiment_enhanced" =>
        LET tokens == call.argument.tokens
        IN  \A p \in 1..Len(tokens) :
                OnlyNegativeWord(tokens, p) =>
                    /\ NegatedAt(tokens, p) =>
                            RatLess(call.result.negative, call.result.positive)
                    /\ (\A q \in 1..Len(tokens) : ~NegationTrigger(tokens, q)) =>
                            RatLess(call.result.positive, call.result.negative)

\* C13: every field of the scores that analyze_sentiment_enhanced returns lies in
\* [0, 1], the returned values satisfy neutral = max(0, 1 - positive - negative) and
\* intensity = min(1, positive + negative + hostility), and a document without
\* tokens has neutral = 1 and every other field 0.
C13_ScoresBoundedAndDerived ==
    call.op = "analyze_sentiment_enhanced" =>
        LET scores == call.result
        IN  /\ DOMAIN scores = {"positive", "negative", "neutral", "hostility", "intensity"}
            /\ \A key \in DOMAIN scores :
                    RatLeq(Zero, scores[key]) /\ RatLeq(scores[key], One)
            /\ scores.neutral =
                    RatMax(Zero, RatSub(One, RatAdd(scores.positive, scores.negative)))
            /\ scores.intensity =
                    RatMin(One, RatAdd(RatAdd(scores.positive, scores.negative),
                                       scores.hostility))
            /\ call.argument.tokens = <<>> =>
                    scores = [ZeroScores EXCEPT !.neutral = One]

\* The clamp has cut a score that words of two lexicons brought above 1
C13_ScoreClamped ==
    /\ call.op = "analyze_sentiment_enhanced"
    /\ call.result.positive = One
    /\ RatLess(Zero, call.result.negative)
    /\ RatLess(Zero, call.result.hostility)
    /\ call.result.neutral = Zero
    /\ call.result.intensity = One
    /\ Cardinality({p \in 1..Len(call.argument.tokens) :
            "positive" \in LexiconsOf(call.argument.tokens, p)}) >= 2

----------------------------------------------------------------------------
(* SpecHostile: map_to_emotions applied to a threat whose key word is "kill" *)

HostileSteps == 4

\* 0, 1/HostileSteps, ..., 1
HostileLevels == {Rat(k, HostileSteps) : k \in 0..HostileSteps}

\* The scores of a hostile text: hostility above 0, neutral as the scorer derives it
HostileScores ==
    {[positive |-> p, negative |-> n,
      neutral |-> RatMax(Zero, RatSub(One, RatAdd(p, n))),
      hostility |-> h, intensity |-> i] :
        p \in HostileLevels, n \in HostileLevels, h \in HostileLevels \ {Zero},
        i \in HostileLevels}

\* No phrase and no pattern of the composer occurs in these texts, and "kill" is
\* their only key word of keyword_emotion_map
HostileTexts == {chars("I'm going to kill you"), chars("That is awful, I will kill you")}

HostileKeyWords == {<<chars("kill"), chars("you")>>, <<chars("awful"), chars("Kill")>>}

HostileAnalyses ==
    {[features |-> [is_question |-> FALSE, exclamatory |-> FALSE, imperative |-> FALSE,
                    key_words |-> k],
      sentiment |-> s, input_text |-> t] :
        k \in HostileKeyWords, s \in HostileScores, t \in HostileTexts}

InitHostile ==
    /\ file = MissingFile
    /\ disk_writable = TRUE
    /\ nlp = "en_core_web_md"
    /\ learner = [i \in Instances |-> AbsentLearner]
    /\ clock = 1
    /\ \E semantic_analysis \in HostileAnalyses, context \in ClassifierContexts :
            call = [NoCall EXCEPT !.semantic_analysis = semantic_analysis,
                                  !.context_full = context]

NextHostile ==
    /\ call.op = "none"
    /\ MapToEmotions(call.semantic_analysis, call.context_full)

SpecHostile == InitHostile /\ [][NextHostile]_vars

----------------------------------------------------------------------------
(* The composer's ranking of a threat *)

\* The place of emotion in the returned order; past the end for an absent emotion
rank(d, emotion) ==
    IF dict_has(d, emotion) THEN CHOOSE i \in 1..Len(d) : d[i].k = emotion
    ELSE Len(d) + 1

\* Afraid comes before Surprised, Surprised before Afraid
AfraidAboveSurprised(d) == dict_has(d, "Afraid") /\ rank(d, "Afraid") < rank(d, "Surprised")
SurprisedAboveAfraid(d) == dict_has(d, "Surprised") /\ rank(d, "Surprised") < rank(d, "Afraid")

\* C14 as stated: for a hostile text whose only trigger is the key word "kill"
\* (hostility above 0, no question, no exclamation, no imperative), the composer
\* under an enemy context ranks Afraid above Surprised and Afraid first, and under
\* a friend context ranks Surprised above Afraid and returns Amused.
C14_ThreatRankedByContext ==
    call.op = "map_to_emotions" =>
        /\ call.context_full.type = "enemy" =>
                /\ AfraidAboveSurprised(call.result)
                /\ call.result[1].k = "Afraid"
        /\ call.context_full.type = "friend" =>
                /\ SurprisedAboveAfraid(call.result)
                /\ dict_has(call.result, "Amused")

\* C14 amended: the same, with Afraid first under an enemy context when the
\* negative score is at most 1/2; above that Angry can equal or exceed Afraid
\* and is returned first.
C14_ThreatRankedByContextLowNegative ==
    call.op = "map_to_emotions" =>
        /\ call.context_full.type = "enemy" =>
                /\ AfraidAboveSurprised(call.result)
                /\ RatLeq(call.semantic_analysis.sentiment.negative, <<1, 2>>)
                        => call.result[1].k = "Afraid"
        /\ call.context_full.type = "friend" =>
                /\ SurprisedAboveAfraid(call.result)
                /\ dict_has(call.result, "Amused")

\* The threat under an enemy context of confidence 0.9, negative score 1/4:
\* Afraid is returned first, Angry and Nervous follow
C14_EnemyThreatAfraidFirst ==
    /\ call.op = "map_to_emotions"
    /\ call.context_full.type = "enemy"
    /\ call.context_full.confidence = <<9, 10>>
    /\ call.semantic_analysis.sentiment.negative = <<1, 4>>
    /\ call.semantic_analysis.sentiment.hostility = <<3, 4>>
    /\ call.semantic_analysis.features.key_words = <<chars("kill"), chars("you")>>
    /\ call.result[1].k = "Afraid"
    /\ dict_has(call.result, "Angry")
    /\ dict_has(call.result, "Nervous")

----------------------------------------------------------------------------
(* The composer's answer to a question *)

\* C15 as stated: whenever is_question is true, Curious is among the first three
\* emotions that map_to_emotions returns, for every sentiment score with fields in
\* [0, 1], every combination of the other features and every context.
C15_QuestionCuriousInTopThree ==
    (/\ call.op = "map_to_emotions"
     /\ "features" \in DOMAIN call.semantic_analysis
     /\ call.semantic_analysis.features.is_question)
        => rank(call.result, "Curious") <= 3

----------------------------------------------------------------------------
(* SpecClassifier: determine_context applied to one triple of arguments *)

MaxEntries == 3

\* Strings of the table in several cases, strings that are near it, and no string
JudgedRelationships ==
    {None, chars("friend"), chars("Ally"), chars("FRIENDLY"), chars("Positive"),
     chars("enemy"), chars("HOSTILE"), chars("negative"), chars("aDvErSaRy"),
     chars("Neutral"), chars("stranger"), chars("ACQUAINTANCE"),
     chars("boss"), chars("friends"), chars(" friend"), chars("unknown")}

\* Entries on both sides of the three thresholds, one with two signals, one with
\* a sentiment that lacks the keys, and one without a sentiment
JudgedEntries ==
    {HistoryEntry(<<4, 5>>, <<1, 10>>, Zero),
     HistoryEntry(<<3, 5>>, <<3, 5>>, <<3, 10>>),
     HistoryEntry(Zero, <<7, 10>>, Zero),
     HistoryEntry(Zero, Zero, <<2, 5>>),
     HistoryEntry(<<9, 10>>, Zero, <<1, 2>>),
     [sentiment |-> [neutral |-> One]],
     [text |-> chars("hi")]}

RECURSIVE EntryLists(_)
EntryLists(n) ==
    IF n = 0 THEN {<<>>}
    ELSE LET shorter == EntryLists(n - 1)
         IN  shorter \cup {Append(l, e) : l \in {x \in shorter : Len(x) = n - 1},
                                          e \in JudgedEntries}

\* No history, {}, a dict without "entries", and the dicts of the entry lists
JudgedHistories ==
    {None, [speaker |-> chars("Ann")]} \cup {[entries |-> l] : l \in EntryLists(MaxEntries)}

JudgedMetadata ==
    {None, [known_person |-> TRUE], [known_person |-> FALSE, relationship_duration |-> 5]}

InitClassifier ==
    /\ file = MissingFile
    /\ disk_writable = TRUE
    /\ nlp = "en_core_web_md"
    /\ learner = [i \in Instances |-> AbsentLearner]
    /\ clock = 1
    /\ \E relationship \in JudgedRelationships, history \in JudgedHistories,
          metadata \in JudgedMetadata :
            call = [NoCall EXCEPT !.relationship = relationship, !.history = history,
                                  !.metadata = metadata]

NextClassifier ==
    /\ call.op = "none"
    /\ DetermineContext(call.relationship, call.history, call.metadata)

SpecClassifier == InitClassifier /\ [][NextClassifier]_vars

----------------------------------------------------------------------------
(* The classifier's context *)

\* The table of the relationship step as the specification prints it
SynonymTable ==
    <<[type |-> "friend", confidence |-> <<9, 10>>,
       names |-> {chars("friend"), chars("ally"), chars("friendly"), chars("positive")}],
      [type |-> "enemy", confidence |-> <<9, 10>>,
       names |-> {chars("enemy"), chars("hostile"), chars("negative"),
                  chars("adversary")}],
      [type |-> "neutral", confidence |-> <<4, 5>>,
       names |-> {chars("neutral"), chars("stranger"), chars("acquaintance")}]>>

\* The rows whose names hold the string in some case
Recognized(relationship) ==
    {r \in 1..Len(SynonymTable) : lower(relationship) \in SynonymTable[r].names}

\* C16: a relationship string of the synonym table, in any case, gives the type
\* and the confidence of its row (friend 0.9, enemy 0.9, neutral 0.8) whatever
\* history is supplied; any other string, or no string, gives unknown with
\* confidence 0.5 when no history is supplied.
C16_RelationshipTableTakesPrecedence ==
    call.op = "determine_context" =>
        /\ \A r \in Recognized(call.relationship) :
                /\ call.context_full.type = SynonymTable[r].type
                /\ call.context_full.confidence = SynonymTable[r].confidence
        /\ (Recognized(call.relationship) = {} /\ call.history = None) =>
                /\ call.context_full.type = "unknown"
                /\ call.context_full.confidence = <<1, 2>>

\* A recognized string in mixed case, with a history of three hostile entries that
\* would alone give enemy: the context is friend with confidence 0.9
C16_RecognizedOverHostileHistory ==
    /\ call.op = "determine_context"
    /\ call.relationship = chars("FRIENDLY")
    /\ call.history # None
    /\ "entries" \in DOMAIN call.history
    /\ Len(call.history.entries) = 3
    /\ \A i \in 1..3 : call.history.entries[i] = HistoryEntry(Zero, <<7, 10>>, Zero)
    /\ call.context_full.type = "friend"
    /\ call.context_full.confidence = <<9, 10>>

\* The value of `key` in the sentiment of an entry, 0 where it is absent
signal(entry, key) ==
    IF "sentiment" \in DOMAIN entry /\ key \in DOMAIN entry.sentiment
    THEN entry.sentiment[key] ELSE Zero

\* The friendly and the hostile signals of the entries, as the specification counts
friendly_signals(entries) ==
    Cardinality({i \in 1..Len(entries) : RatLess(<<3, 5>>, signal(entries[i], "positive"))})

hostile_signals(entries) ==
    Cardinality({i \in 1..Len(entries) : RatLess(<<3, 5>>, signal(entries[i], "negative"))})
    + 2 * Cardinality({i \in 1..Len(entries) :
                            RatLess(<<3, 10>>, signal(entries[i], "hostility"))})

\* C17: when the relationship is absent or unrecognized and a history with an
\* entries list is supplied, the context is friend with confidence 0.7 if the
\* friendly signals exceed twice the hostile ones, otherwise enemy with 0.7 if the
\* hostile signals exceed the friendly ones, otherwise neutral with 0.6, and so
\* never unknown; an entry gives one friendly signal for positive > 0.6, one
\* hostile signal for negative > 0.6 and two for hostility > 0.3.
C17_HistoryTallyDecides ==
    (/\ call.op = "determine_context"
     /\ Recognized(call.relationship) = {}
     /\ call.history # None
     /\ "entries" \in DOMAIN call.history)
        => LET friendly == friendly_signals(call.history.entries)
               hostile == hostile_signals(call.history.entries)
               expected == IF friendly > 2 * hostile THEN <<"friend", <<7, 10>>>>
                           ELSE IF hostile > friendly THEN <<"enemy", <<7, 10>>>>
                           ELSE <<"neutral", <<3, 5>>>>
           IN  /\ call.context_full.type = expected[1]
               /\ call.context_full.confidence = expected[2]
               /\ call.context_full.type # "unknown"

\* Two friendly entries and one entry whose hostility alone counts twice, under an
\* unrecognized string: 2 is not above 2 x 2 and 2 is not above 2, so neutral 0.6
C17_HostilityCountedTwice ==
    /\ call.op = "determine_context"
    /\ call.relationship = chars("boss")
    /\ call.history # None
    /\ "entries" \in DOMAIN call.history
    /\ friendly_signals(call.history.entries) = 2
    /\ hostile_signals(call.history.entries) = 2
    /\ \E i \in 1..Len(call.history.entries) :
            call.history.entries[i] = HistoryEntry(Zero, Zero, <<2, 5>>)
    /\ call.context_full.type = "neutral"
    /\ call.context_full.confidence = <<3, 5>>

----------------------------------------------------------------------------
(* SpecGrowth: one learner whose store grows from nothing, or from the cap *)

MaxGrowth == 32

GrowthQueryTexts == {T_empty, T_bye}

InitGrowth ==
    /\ file \in {MissingFile, CapFile(HISTORY_LIMIT - 1)}
    /\ disk_writable = TRUE
    /\ nlp = "en_core_web_md"
    /\ learner = [i \in Instances |-> AbsentLearner]
    /\ clock = 1
    /\ call = NoCall

\* A session records up to MaxGrowth interactions on an empty store and up to
\* MaxCapRecords on a store at the cap, and may adjust after each of them
NextGrowth ==
    \/ Construct(1)
    \/ /\ AfterUpdate
       /\ \/ Len(learner[1].interaction_history) < MaxGrowth
          \/ /\ Len(learner[1].interaction_history) >= HISTORY_LIMIT - 1
             /\ clock <= MaxCapRecords
       /\ RecordInteraction(1, T_empty, D_happy, "friend", <<>>)
    \/ \E text \in GrowthQueryTexts, emotions \in BaseDistributions :
            /\ AfterUpdate
            /\ AdjustEmotions(1, text, "friend", emotions)

SpecGrowth == InitGrowth /\ [][NextGrowth]_vars

----------------------------------------------------------------------------
(* The learner's learning factor *)

\* The store size that adjust_emotions reads in this state
StoreSize == Len(learner[1].interaction_history)

\* C18: the learning factor that adjust uses on the store is at least the factor
\* of every smaller store, is at most 0.3, and is 0.3 when the store holds 30
\* interactions or more, which includes the store after an eviction at the cap.
C18_LearningFactorMonotoneAndCapped ==
    learner[1].status = "ready" =>
        /\ \A smaller \in 0..StoreSize :
                RatLeq(learning_factor(smaller), learning_factor(StoreSize))
        /\ RatLeq(learning_factor(StoreSize), <<3, 10>>)
        /\ StoreSize >= 30 => learning_factor(StoreSize) = <<3, 10>>

\* An adjustment on the store that an eviction has just kept at the cap
C18_AdjustedAfterEviction ==
    /\ call.op = "adjust_emotions"
    /\ StoreSize = HISTORY_LIMIT
    /\ clock > 2
    /\ learning_factor(StoreSize) = <<3, 10>>
    /\ call.result # call.emotions

----------------------------------------------------------------------------
(* The order of the learning steps in process_input *)

\* The distribution of the composer for the arguments of the call
ComposedFor(c) ==
    map_to_emotions([input_text |-> c.text] @@ analyze_text(nlp, c.text).value,
                    determine_context(c.relationship, c.history, c.metadata))

\* C19: a process_input step with learning that returns a Response adds exactly
\* one interaction at the end of the store and leaves the earlier ones in place;
\* the interaction holds the call's text, the Response's context type and the
\* Response's distribution, which is the composer's distribution adjusted on the
\* store as it was before the step; the similar responses are those of the store
\* before the step, so each of them is an interaction that an earlier call stored.
C19_QueriesBeforeRecording ==
    [][(/\ call'.op = "process_input"
        /\ call'.use_learning
        /\ call'.raised = "none")
       => LET before == learner[1].interaction_history
              after == learner'[1].interaction_history
              response == call'.response
              similar == get_similar_interactions(learner[1], call'.text,
                                                  response.context, 3)
          IN  /\ Len(after) = Len(before) + 1
              /\ SubSeq(after, 1, Len(before)) = before
              /\ after[Len(after)].input_text = call'.text
              /\ after[Len(after)].context = response.context
              /\ after[Len(after)].emotions = response.emotions
              /\ \E new_order \in Orders(learner[1], call'.text, response.context,
                                         ComposedFor(call')) :
                    response.emotions = adjust_emotions(learner[1], call'.text,
                                                        response.context,
                                                        ComposedFor(call'), new_order)
              /\ call'.debug =>
                    /\ similar # <<>> =>
                            response.debug.semantic_analysis.similar_responses = similar
                    /\ similar = <<>> =>
                            "similar_responses" \notin
                                DOMAIN response.debug.semantic_analysis
                    /\ \A i \in 1..Len(similar) :
                            \E j \in 1..Len(before) : similar[i] = before[j]]_vars

\* A call with learning and debug whose text an earlier call stored: the earlier
\* interaction is among the similar responses, the new one is the last of the
\* store, and it holds a distribution that the learner has changed
C19_RepeatedInputRecordedLast ==
    /\ call.op = "process_input"
    /\ call.use_learning
    /\ call.debug
    /\ call.raised = "none"
    /\ "similar_responses" \in DOMAIN call.response.debug.semantic_analysis
    /\ \E i \in 1..Len(call.response.debug.semantic_analysis.similar_responses) :
            call.response.debug.semantic_analysis.similar_responses[i].input_text = call.text
    /\ learner[1].interaction_history[Len(learner[1].interaction_history)].emotions
            = call.response.emotions
    /\ call.response.emotions # ComposedFor(call)
    /\ Len(call.response.debug.semantic_analysis.similar_responses)
            < Len(learner[1].interaction_history)

----------------------------------------------------------------------------
(* The scorer's phrase-negation pass *)

\* The scores that the loop over the tokens leaves to the phrase pass
WindowedScores(doc) ==
    analyze_tokens(doc, 0, [sentiment_scores |-> ZeroScores, negation_active |-> FALSE,
                            negation_window |-> 0, skip_indices |-> {}]).sentiment_scores

\* <<sentiment_type, weight>> of every "<negation phrase> <lexicon word>" that the
\* lowercased text holds, in the order of the lexicons
MatchedPatterns(doc) ==
    LET found == SelectSeq(negated_patterns,
                    LAMBDA pattern :
                        contains(lower(doc.text), join2(pattern[4], pattern[2])))
    IN  Tuple([q \in 1..Len(found) |-> <<found[q][1], found[q][3]>>])

\* The rule of step 4 on the aggregate scores: a positive word adds its weight to
\* negative; a negative word adds its weight to positive and takes half of it from
\* negative, floored at 0; a hostile word adds 0.3 x weight to hostility
RECURSIVE WindowedRuleApplied(_, _, _)
WindowedRuleApplied(scores, matches, q) ==
    IF q > Len(matches) THEN scores
    ELSE LET w == matches[q][2]
             next == CASE matches[q][1] = "positive" ->
                            [scores EXCEPT !.negative = RatAdd(@, w)]
                      [] matches[q][1] = "negative" ->
                            [scores EXCEPT
                                !.positive = RatAdd(@, w),
                                !.negative = RatMax(Zero, RatSub(@, RatMul(<<1, 2>>, w)))]
                      [] OTHER ->
                            [scores EXCEPT !.hostility = RatAdd(@, RatMul(<<3, 10>>, w))]
         IN  WindowedRuleApplied(next, matches, q + 1)

\* The rule with the coefficients of the pass: a positive word adds 0.7 x weight to
\* negative and takes 0.5 x weight from positive; a negative word adds its weight
\* to positive and takes 0.7 x weight from negative; a hostile word takes
\* 0.6 x weight from hostility; every subtraction is floored at 0
RECURSIVE PhraseRuleApplied(_, _, _)
PhraseRuleApplied(scores, matches, q) ==
    IF q > Len(matches) THEN scores
    ELSE LET w == matches[q][2]
             next == CASE matches[q][1] = "positive" ->
                            [scores EXCEPT
                                !.negative = RatAdd(@, RatMul(<<7, 10>>, w)),
                                !.positive = RatMax(Zero, RatSub(@, RatMul(<<1, 2>>, w)))]
                      [] matches[q][1] = "negative" ->
                            [scores EXCEPT
                                !.positive = RatAdd(@, w),
                                !.negative = RatMax(Zero, RatSub(@, RatMul(<<7, 10>>, w)))]
                      [] OTHER ->
                            [scores EXCEPT
                                !.hostility = RatMax(Zero, RatSub(@, RatMul(<<3, 5>>, w)))]
         IN  PhraseRuleApplied(next, matches, q + 1)

\* The pass runs on this document
PhrasePassRuns(doc) == Len(doc.tokens) > 0 /\ has_negation_phrases(lower(doc.text))

\* C20 as stated: when the phrase pass runs, the scores returned are the clamped
\* and derived scores of the token loop's scores corrected, for every matched
\* "<negation phrase> <lexicon word>", by the rule of step 4.
C20_PhrasePassAppliesWindowedRule ==
    (call.op = "analyze_sentiment_enhanced" /\ PhrasePassRuns(call.argument))
        => call.result = final_scores(
                WindowedRuleApplied(WindowedScores(call.argument),
                                    MatchedPatterns(call.argument), 1),
                call.argument)

\* C20 amended: the same with the coefficients of the pass (0.7 and 0.5 for a
\* positive word, 1 and 0.7 for a negative word, 0.6 taken from hostility for a
\* hostile word), added on top of what the token loop contributed.
C20_PhrasePassAppliesOwnRule ==
    (call.op = "analyze_sentiment_enhanced" /\ PhrasePassRuns(call.argument))
        => call.result = final_scores(
                PhraseRuleApplied(WindowedScores(call.argument),
                                  MatchedPatterns(call.argument), 1),
                call.argument)

\* "love not love": the loop gives positive 0.9 and negative 0.9, the pass finds
\* "not love", adds 0.63 to negative and takes 0.45 from positive
C20_PositiveLoweredByPass ==
    /\ call.op = "analyze_sentiment_enhanced"
    /\ PhrasePassRuns(call.argument)
    /\ MatchedPatterns(call.argument) = <<<<"positive", <<9, 10>>>>>>
    /\ WindowedScores(call.argument).positive = <<9, 10>>
    /\ WindowedScores(call.argument).negative = <<9, 10>>
    /\ call.result.positive = <<9, 20>>
    /\ call.result.negative = One

\* C21 as stated: whenever the lowercased text holds one of the six negation
\* phrases followed by a blank and a lexicon word, the scores returned are those
\* of the token loop corrected by the pass for every such pair, whichever phrase
\* it is and whatever else the text holds.
C21_EveryMatchedPhraseCorrected ==
    (/\ call.op = "analyze_sentiment_enhanced"
     /\ MatchedPatterns(call.argument) # <<>>)
        => call.result = final_scores(
                PhraseRuleApplied(WindowedScores(call.argument),
                                  MatchedPatterns(call.argument), 1),
                call.argument)

----------------------------------------------------------------------------
(* SpecWindow: analyze_sentiment_enhanced on documents long enough for the window *)

MaxWindowTokens == 5

\* Two triggers, of which only "not" is a phrase of lines 168-172, a word of no
\* lexicon, a positive word, a negative and hostile word, and a punctuation mark
WindowTokens ==
    {Token("not", "not", "PART", "RB", TRUE),
     Token("never", "never", "ADV", "RB", TRUE),
     Token("table", "table", "NOUN", "NN", FALSE),
     Token("love", "love", "VERB", "VBP", FALSE),
     Token("hate", "hate", "VERB", "VBP", FALSE),
     Token(",", ",", "PUNCT", ",", FALSE)}

WindowDocs ==
    {ScorerDoc(tokens) : tokens \in UNION {[1..n -> WindowTokens] : n \in 0..MaxWindowTokens}}

InitWindow ==
    /\ file = MissingFile
    /\ disk_writable = TRUE
    /\ nlp = "en_core_web_md"
    /\ learner = [i \in Instances |-> AbsentLearner]
    /\ clock = 1
    /\ \E doc \in WindowDocs : call = [NoCall EXCEPT !.argument = doc]

NextWindow ==
    /\ call.op = "none"
    /\ AnalyzeSentimentEnhanced(call.argument)

SpecWindow == InitWindow /\ [][NextWindow]_vars

----------------------------------------------------------------------------
(* The scorer's negation scope *)

\* <<sentiment_type, weight>> for every lexicon that holds the lemma at place p
LexiconHits(tokens, p) ==
    LET held == SelectSeq(SENTIMENT_LEXICON,
                          LAMBDA lexicon : has_key(lexicon[2], lower(tokens[p].lemma)))
    IN  Tuple([k \in 1..Len(held) |->
                <<held[k][1], item_value(held[k][2], lower(tokens[p].lemma))>>])

\* The scores of one word scored un-negated: its weight on the field of each hit
RECURSIVE PlainRuleApplied(_, _, _)
PlainRuleApplied(scores, hits, q) ==
    IF q > Len(hits) THEN scores
    ELSE LET key == IF hits[q][1] = "hostile" THEN "hostility" ELSE hits[q][1]
         IN  PlainRuleApplied([scores EXCEPT ![key] = RatAdd(@, hits[q][2])], hits, q + 1)

\* Place p holds the only lexicon word of the tokens
OnlyLexiconWord(tokens, p) ==
    /\ LexiconsOf(tokens, p) # {}
    /\ \A q \in 1..Len(tokens) : q # p => LexiconsOf(tokens, q) = {}

\* No punctuation and no trigger strictly between the places t and p
ClearBetween(tokens, t, p) ==
    \A q \in (t + 1)..(p - 1) : ~tokens[q].is_punct /\ ~NegationTrigger(tokens, q)

\* C22 as stated: when the only lexicon word of the tokens stands at one of the
\* first four places after a negation trigger, with no punctuation and no further
\* trigger in between, the token loop scores it under the negation rule; when the
\* only trigger of the tokens stands five or more places before it, with no
\* punctuation in between, the token loop scores it un-negated.
C22_ScopeCoversFourTokens ==
    call.op = "analyze_sentiment_enhanced" =>
        LET tokens == call.argument.tokens
        IN  \A p \in 1..Len(tokens) : \A t \in 1..(p - 1) :
                (/\ OnlyLexiconWord(tokens, p)
                 /\ NegationTrigger(tokens, t)
                 /\ ~tokens[p].is_punct
                 /\ ClearBetween(tokens, t, p))
                    => /\ p - t <= 4 =>
                            WindowedScores(call.argument)
                                = WindowedRuleApplied(ZeroScores, LexiconHits(tokens, p), 1)
                       /\ (/\ p - t >= 5
                           /\ \A q \in 1..Len(tokens) : q # t => ~NegationTrigger(tokens, q))
                            => WindowedScores(call.argument)
                                = PlainRuleApplied(ZeroScores, LexiconHits(tokens, p), 1)

\* C23 as stated: when the only lexicon word of the tokens comes after a
\* punctuation token that comes after a negation trigger, and no trigger stands
\* between the punctuation and the word, the token loop scores it un-negated.
C23_PunctuationClosesScope ==
    call.op = "analyze_sentiment_enhanced" =>
        LET tokens == call.argument.tokens
        IN  \A p \in 1..Len(tokens) : \A c \in 1..(p - 1) : \A t \in 1..(c - 1) :
                (/\ OnlyLexiconWord(tokens, p)
                 /\ NegationTrigger(tokens, t)
                 /\ tokens[c].is_punct
                 /\ \A q \in (c + 1)..p : ~NegationTrigger(tokens, q))
                    => WindowedScores(call.argument)
                            = PlainRuleApplied(ZeroScores, LexiconHits(tokens, p), 1)

----------------------------------------------------------------------------
(* SpecModifier: analyze_sentiment_enhanced on documents with modifiers *)

MaxModifierTokens == 4

\* A trigger, an intensifier, a diminisher, the two words of a diminisher phrase,
\* a positive word, a negative and hostile word, a word of no lexicon, punctuation
ModifierTokens ==
    {Token("not", "not", "PART", "RB", TRUE),
     Token("very", "very", "ADV", "RB", TRUE),
     Token("barely", "barely", "ADV", "RB", FALSE),
     Token("kind", "kind", "ADV", "RB", FALSE),
     Token("of", "of", "ADV", "RB", TRUE),
     Token("love", "love", "VERB", "VBP", FALSE),
     Token("hate", "hate", "VERB", "VBP", FALSE),
     Token("table", "table", "NOUN", "NN", FALSE),
     Token(",", ",", "PUNCT", ",", FALSE)}

ModifierDocs ==
    {ScorerDoc(tokens) :
        tokens \in UNION {[1..n -> ModifierTokens] : n \in 0..MaxModifierTokens}}

InitModifier ==
    /\ file = MissingFile
    /\ disk_writable = TRUE
    /\ nlp = "en_core_web_md"
    /\ learner = [i \in Instances |-> AbsentLearner]
    /\ clock = 1
    /\ \E doc \in ModifierDocs : call = [NoCall EXCEPT !.argument = doc]

NextModifier ==
    /\ call.op = "none"
    /\ AnalyzeSentimentEnhanced(call.argument)

SpecModifier == InitModifier /\ [][NextModifier]_vars

----------------------------------------------------------------------------
(* The scorer's modifiers *)

\* The multiplier of the modifier that starts at place m and the number of its
\* tokens: a two-word phrase of the tables, else a single word; <<Zero, 0>> for none
ModifierAt(tokens, m) ==
    LET word == lower(tokens[m].lemma)
        pair == IF m < Len(tokens) THEN join2(word, lower(tokens[m + 1].lemma)) ELSE <<>>
    IN  IF m < Len(tokens) /\ has_key(DIMINISHERS, pair)
        THEN <<item_value(DIMINISHERS, pair), 2>>
        ELSE IF m < Len(tokens) /\ has_key(INTENSIFIERS, pair)
        THEN <<item_value(INTENSIFIERS, pair), 2>>
        ELSE IF has_key(INTENSIFIERS, word) THEN <<item_value(INTENSIFIERS, word), 1>>
        ELSE IF has_key(DIMINISHERS, word) THEN <<item_value(DIMINISHERS, word), 1>>
        ELSE <<Zero, 0>>

\* The hits of the word at place p with every weight multiplied
ScaledHits(tokens, p, multiplier) ==
    LET hits == LexiconHits(tokens, p)
    IN  Tuple([k \in 1..Len(hits) |-> <<hits[k][1], RatMul(hits[k][2], multiplier)>>])

\* The modifier at place m is the only one of the tokens, the lexicon word at
\* place p directly follows it and is the only lexicon word
OnlyModifiedWord(tokens, m, p) ==
    /\ ModifierAt(tokens, m)[2] > 0
    /\ p = m + ModifierAt(tokens, m)[2]
    /\ p <= Len(tokens)
    /\ OnlyLexiconWord(tokens, p)
    /\ \A q \in 1..Len(tokens) : q # m => ModifierAt(tokens, q)[2] = 0

----------------------------------------------------------------------------
(* The learner's blend *)

\* The share of emotion in the weights of table[key]; 0 where the table does not
\* hold the key or the emotion, or where the weights do not sum above 0
Share(table, key, emotion) ==
    IF key \in DOMAIN table /\ emotion \in DOMAIN table[key]
       /\ RatLess(Zero, weights_sum(table[key], DOMAIN table[key]))
    THEN RatDiv(table[key][emotion], weights_sum(table[key], DOMAIN table[key]))
    ELSE Zero

\* The value that the blend gives to emotion, before any normalization
Blend(L, text, context, emotions, emotion) ==
    LET words == split(lower(text))
        lf == RatMin(<<3, 10>>, Rat(Len(L.interaction_history), 100))
        word_adj == SumRange([i \in 1..Len(words) |->
                                Share(L.word_emotion_associations, words[i], emotion)],
                             1, Len(words))
        phrase_adj == RatMul(<<3, 2>>,
                        SumRange([i \in 1..(Len(words) - 1) |->
                                    Share(L.phrase_emotion_associations,
                                          join2(words[i], words[i + 1]), emotion)],
                                 1, Len(words) - 1))
        context_adj == Share(L.context_emotion_associations, context, emotion)
    IN  RatAdd(RatMul(dict_get(emotions, emotion, Zero), RatSub(One, lf)),
               RatMul(lf, RatAdd(RatAdd(RatMul(<<2, 5>>, word_adj),
                                        RatMul(<<2, 5>>, phrase_adj)),
                                 RatMul(<<1, 5>>, context_adj))))

\* The emotions that the entries of a table hold
TableEmotions(table) == UNION {DOMAIN table[key] : key \in DOMAIN table}

\* Every emotion of the base distribution and of the three tables
KnownEmotions(L, emotions) ==
    dict_keys(emotions) \cup TableEmotions(L.word_emotion_associations)
    \cup TableEmotions(L.phrase_emotion_associations)
    \cup TableEmotions(L.context_emotion_associations)

\* value divided by its sum over S when the sum is above 0
Renormalized(S, value) ==
    LET total == weights_sum(value, S)
    IN  [e \in S |-> IF RatLess(Zero, total) THEN RatDiv(value[e], total) ELSE value[e]]

\* C25: on a non-empty store, adjust returns the emotions whose blended value
\* base x (1 - lf) + lf x (0.4 x word_adj + 0.4 x phrase_adj + 0.2 x context_adj),
\* normalized over the union of the base distribution and the adjustment maps, is
\* at least 0.05, with these values normalized again, in non-increasing order.
C25_AdjustBlendsNormalizesFilters ==
    (call.op = "adjust_emotions" /\ QueriedHistory # <<>>) =>
        LET L == learner[call.self]
            known == KnownEmotions(L, call.emotions)
            first == Renormalized(known,
                        [e \in known |-> Blend(L, call.text, call.context,
                                               call.emotions, e)])
            kept == {e \in known : RatLeq(<<1, 20>>, first[e])}
            second == Renormalized(kept, first)
        IN  /\ dict_keys(call.result) = kept
            /\ \A i \in 1..Len(call.result) :
                    call.result[i].v = second[call.result[i].k]
            /\ NonIncreasing(call.result)

\* An adjustment on a store that holds the pair of the query's words: the phrase
\* table contributes, an emotion of the base distribution is dropped by the filter
\* or an emotion of the tables is added
C25_PhraseBlended ==
    /\ call.op = "adjust_emotions"
    /\ QueriedHistory # <<>>
    /\ Len(split(lower(call.text))) = 2
    /\ join2(split(lower(call.text))[1], split(lower(call.text))[2])
            \in DOMAIN learner[call.self].phrase_emotion_associations
    /\ call.context \in DOMAIN learner[call.self].context_emotion_associations
    /\ dict_keys(call.result) # dict_keys(call.emotions)
    /\ Len(call.result) >= 2

----------------------------------------------------------------------------
(* The composer's context weighting *)

\* The values of the emotions before and after lines 275-278 in a call
ValuesBefore(c) == unweighted_values(c.semantic_analysis, c.context_full)
ValuesAfter(c, before) ==
    weighted_values(before, py_get(c.context_full, "type", "unknown"),
                    py_get(c.context_full, "confidence", <<1, 2>>))

\* The emotions that the specification names as boosted and as dampened
Boosted(context_type) ==
    CASE context_type = "friend" -> {"Happy", "Excited", "Amused", "Loving"}
      [] context_type = "enemy" -> {"Afraid", "Angry", "Disgusted"}
      [] context_type = "neutral" -> {"Curious", "Confused", "Nervous"}
      [] OTHER -> {}

Dampened(context_type) ==
    CASE context_type = "friend" -> {"Afraid", "Angry"}
      [] context_type = "enemy" -> {"Happy", "Loving", "Calm"}
      [] OTHER -> {}

\* A composition that reaches the weighting: the analysis holds no error
Weighted == call.op = "map_to_emotions" /\ "error" \notin DOMAIN call.semantic_analysis

\* C26 as stated: for every context of the classifier, the weighting multiplies
\* the boosted emotions of the context type by a factor above 1 and the dampened
\* ones by a factor below 1, and leaves every emotion as it was under unknown.
C26_BoostedAboveOneDampenedBelow ==
    Weighted =>
        \A before \in {ValuesBefore(call)} : \A after \in {ValuesAfter(call, before)} :
            LET context_type == call.context_full.type
            IN  /\ \A e \in Boosted(context_type) :
                        RatLess(Zero, before[e]) => RatLess(before[e], after[e])
                /\ \A e \in Dampened(context_type) :
                        RatLess(Zero, before[e]) => RatLess(after[e], before[e])
                /\ context_type = "unknown" => after = before

\* The weight that the specification tabulates for an emotion under a type
TabulatedWeight(context_type, e) ==
    LET weights == CONTEXT_WEIGHTS(context_type)
    IN  weights[CHOOSE i \in 1..Len(weights) : weights[i][1] = e][2]

\* C26 amended: the weighting multiplies each tabulated emotion by its weight
\* times the confidence of the context; the factor of a dampened emotion is below
\* 1, the factor of a boosted emotion is above 1 only where weight x confidence
\* is, and no emotion is reweighted under unknown or outside the table.
C26_WeightScaledByConfidence ==
    Weighted =>
        \A before \in {ValuesBefore(call)} : \A after \in {ValuesAfter(call, before)} :
            LET context_type == call.context_full.type
                confidence == call.context_full.confidence
                tabulated == Boosted(context_type) \cup Dampened(context_type)
            IN  /\ \A e \in tabulated :
                        after[e] = RatMul(before[e],
                                          RatMul(TabulatedWeight(context_type, e),
                                                 confidence))
                /\ \A e \in Boosted(context_type) :
                        RatLess(Zero, before[e]) =>
                            (RatLess(before[e], after[e])
                                <=> RatLess(One, RatMul(TabulatedWeight(context_type, e),
                                                        confidence)))
                /\ \A e \in Dampened(context_type) :
                        RatLess(Zero, before[e]) => RatLess(after[e], before[e])
                /\ \A e \in (DOMAIN before) \ tabulated : after[e] = before[e]
                /\ context_type = "unknown" => after = before

\* A question under the neutral context of a recognized relationship (confidence
\* 0.8): Confused, a boosted emotion, is multiplied by 1.1 x 0.8 and lowered
C26_BoostedEmotionLowered ==
    /\ Weighted
    /\ call.context_full.type = "neutral"
    /\ call.context_full.confidence = <<4, 5>>
    /\ call.semantic_analysis.features.is_question
    /\ \E before \in {ValuesBefore(call)} : \E after \in {ValuesAfter(call, before)} :
            /\ RatLess(Zero, before["Confused"])
            /\ after["Confused"] = RatMul(<<22, 25>>, before["Confused"])
            /\ RatLess(before["Curious"], after["Curious"])

----------------------------------------------------------------------------
(* SpecShared: two learners opened on one persisted file *)

MaxSharedRecords == 3

SharedRecordings == {T_hi, T_Hi_you} \X {<<D_happy, "friend">>, <<D_tie, "enemy">>}

InitShared ==
    /\ file \in {MissingFile, EmptyListFile, OneRecordFile}
    /\ disk_writable = TRUE
    /\ nlp = "en_core_web_md"
    /\ learner = [i \in Instances |-> AbsentLearner]
    /\ clock = 1
    /\ call = NoCall

NextShared ==
    \/ \E self \in Instances : Construct(self)
    \/ \E self \in Instances, recording \in SharedRecordings :
            /\ clock <= MaxSharedRecords
            /\ RecordInteraction(self, recording[1], recording[2][1], recording[2][2], <<>>)

SpecShared == InitShared /\ [][NextShared]_vars

----------------------------------------------------------------------------
(* Properties of the shared store, checked on SpecShared *)

\* The interactions of the persisted store
Persisted(f) == Range(_load_history(f).items)

\* C27: a recording by an instance leaves the persisted store equal to the
\* in-memory store of that instance, which is what the instance held before plus
\* the new interaction; every interaction that the file held and the instance did
\* not (one recorded by the other instance since this one loaded) is gone from the
\* file after the recording.
C27_RecorderRewritesStoreFromMemory ==
    [][\A self \in Instances :
          (call'.op = "add_interaction" /\ call'.self = self /\ call'.raised = "none") =>
              /\ file' = JsonFile("list", learner'[self].interaction_history)
              /\ Len(learner'[self].interaction_history)
                    = Len(learner[self].interaction_history) + 1
              /\ SubSeq(learner'[self].interaction_history, 1,
                        Len(learner[self].interaction_history))
                    = learner[self].interaction_history
              /\ \A x \in Persisted(file) :
                    x \notin Range(learner[self].interaction_history)
                        => x \notin Persisted(file')]_vars

\* Both instances are open, instance 2 has just recorded, and an interaction that
\* instance 1 recorded in this session is in the memory of instance 1 only
C27_LostUpdate ==
    /\ call.op = "add_interaction" /\ call.self = 2 /\ call.raised = "none"
    /\ learner[1].status = "ready"
    /\ file = JsonFile("list", learner[2].interaction_history)
    /\ \E x \in Range(learner[1].interaction_history) :
            /\ x.timestamp >= 1
            /\ x \notin Persisted(file)

----------------------------------------------------------------------------
(* The composer's dominant emotion *)

\* C28: for every sentiment score with fields in [0, 1], every combination of the
\* features and every context of the classifier, the composer returns at least one
\* and at most 15 emotions, the first of which has a weight of at least 1/15 and
\* the largest weight of all: the dominant emotion that the front end reads from
\* the distribution is defined and is an emotion of maximal weight.
C28_DominantEmotionDefined ==
    call.op = "map_to_emotions" =>
        /\ call.result # <<>>
        /\ Len(call.result) <= 15
        /\ RatLeq(<<1, 15>>, call.result[1].v)
        /\ \A i \in 1..Len(call.result) : RatLeq(call.result[i].v, call.result[1].v)
        /\ dominant_emotion(call.result) # "None"
        /\ dominant_emotion(call.result) = call.result[1].k

\* The tightest case: nothing raises any emotion, all 15 weigh 1/15 and all
\* survive the filter
C28_UniformSurvives ==
    /\ call.op = "map_to_emotions"
    /\ Len(call.result) = 15
    /\ \A i \in 1..15 : call.result[i].v = <<1, 15>>
    /\ dominant_emotion(call.result) = call.result[1].k

----------------------------------------------------------------------------
(* SpecOversized: one learner, opened on a store that holds more than the cap *)

MaxOversize == 2
MaxOversizedRecords == 2

InitOversized ==
    /\ file \in {CapFile(HISTORY_LIMIT + extra) : extra \in 1..MaxOversize}
    /\ disk_writable = TRUE
    /\ nlp = "en_core_web_md"
    /\ learner = [i \in Instances |-> AbsentLearner]
    /\ clock = 1
    /\ call = NoCall

NextOversized ==
    \/ Construct(1)
    \/ \E recording \in CapRecordings :
            /\ AfterUpdate
            /\ clock <= MaxOversizedRecords
            /\ RecordInteraction(1, recording[1], recording[2][1], recording[2][2], <<>>)
    \/ \E text \in CapQueryTexts, emotions \in BaseDistributions :
            /\ AfterUpdate
            /\ AdjustEmotions(1, text, "friend", emotions)
    \/ \E text \in CapQueryTexts, limit \in 1..MaxLimit :
            /\ AfterUpdate
            /\ GetSimilarInteractions(1, text, "enemy", limit)

SpecOversized == InitOversized /\ [][NextOversized]_vars

----------------------------------------------------------------------------
(* Properties of the oversized store, checked on SpecOversized *)

\* C29 as stated: in every reachable state, the states between the construction
\* from a store of more than 1000 interactions and the first recording included,
\* the learner holds at most 1000 interactions, and every adjustment and every
\* search reads a store of at most 1000 interactions.
C29_CapHoldsInEveryState ==
    \A self \in Instances :
        learner[self].status = "ready" =>
            Len(learner[self].interaction_history) <= HISTORY_LIMIT

----------------------------------------------------------------------------
(* The learner's phrase weighting *)

\* The phrase weighting factors compared: 1.2 is the factor of line 86
PhraseFactors == {<<1, 2>>, One, <<6, 5>>, <<3, 1>>}

\* What one interaction adds to the phrase table (lines 82-86) with `factor` in
\* the place of 1.2
interaction_phrases(interaction, factor) ==
    LET text == lower(interaction.input_text)
        emotions == interaction.emotions
        pairs == bigrams(split(text))
    IN  IF text = <<>> \/ emotions = <<>>
        THEN EmptyTable
        ELSE [b \in Range(pairs) |->
                [e \in dict_keys(emotions) |->
                    RatMul(<<occurrences(pairs, b), 1>>,
                           RatMul(dict_get(emotions, e, Zero), factor))]]

\* The phrase table that _rebuild_associations builds from items[1..n] with
\* `factor` in the place of 1.2
RECURSIVE rebuild_phrases(_, _, _)
rebuild_phrases(items, n, factor) ==
    IF n = 0 THEN EmptyTable
    ELSE merge_table(rebuild_phrases(items, n - 1, factor),
                     interaction_phrases(items[n], factor))

\* The learner whose phrase table was built with `factor`
WithPhraseFactor(L, factor) ==
    [L EXCEPT !.phrase_emotion_associations =
        rebuild_phrases(L.interaction_history, Len(L.interaction_history), factor)]

\* Every value that adjust_emotions may return on a learner
Adjusted(L, text, context, emotions) ==
    {adjust_emotions(L, text, context, emotions, new_order) :
        new_order \in Orders(L, text, context, emotions)}

\* C30: the factor 1.2 by which the rebuild weighs the bigrams has no effect on
\* what adjust returns: on every store and for every query, a learner whose
\* phrase table was built with any other positive factor returns the same
\* distribution (the table built with 1.2 being the learner's own).
C30_PhraseFactorWithoutEffect ==
    (call.op = "adjust_emotions" /\ learner[call.self].pytype = "list") =>
        \A L \in {learner[call.self]} :
            /\ WithPhraseFactor(L, <<6, 5>>).phrase_emotion_associations
                    = L.phrase_emotion_associations
            /\ \A factor \in PhraseFactors :
                \A L2 \in {WithPhraseFactor(L, factor)} :
                    /\ call.result \in Adjusted(L2, call.text, call.context, call.emotions)
                    /\ Adjusted(L2, call.text, call.context, call.emotions)
                            = Adjusted(L, call.text, call.context, call.emotions)

\* An adjustment of a text whose bigram the store holds: the tables built with
\* the other factors differ from the learner's, and the phrase changes the result
C30_PhraseTablesDiffer ==
    /\ call.op = "adjust_emotions"
    /\ learner[call.self].pytype = "list"
    /\ \E b \in Range(bigrams(split(lower(call.text)))) :
            b \in DOMAIN learner[call.self].phrase_emotion_associations
    /\ \A factor \in PhraseFactors \ {<<6, 5>>} :
            WithPhraseFactor(learner[call.self], factor).phrase_emotion_associations
                # learner[call.self].phrase_emotion_associations
    /\ call.result # call.emotions

=============================================================================
